---------------------------- MODULE Spec2Model ----------------------------
(***************************************************************************)
(* A model of the receipt parser of monetiq (ReceiptParser: parse,         *)
(* isLikelyItem, isNoise, parsePrice).                                     *)
(*                                                                         *)
(* A JavaScript string is a sequence of one-character strings.  A          *)
(* JavaScript number is a record: a finite decimal m * 10^(-e), kept in    *)
(* lowest terms of e, or an infinity, or NaN.  A regular expression is an  *)
(* operator that scans the sequence the way the expression does.           *)
(***************************************************************************)
EXTENDS Integers, Sequences, FiniteSets, TLC

VARIABLES
    rawText,          \* the argument of parse
    today,            \* new Date().toISOString().split('T')[0] of the call
    pc,               \* the position of the call inside parse
    lines,            \* const lines
    data,             \* const data: merchant, date, total, items
    idx,              \* the line the item loop is at
    calculatedTotal,  \* let calculatedTotal
    calcExact,        \* whether the double calculatedTotal is the exact sum
    detectedTotal,    \* let detectedTotal
    priceStr,         \* the argument of a direct call of parsePrice
    priceOut,         \* what that call returned
    descArg,          \* the argument of a call of Categorizer.categorize
    labelOut,         \* what that call returned, in a list: <<>> before it
    categoriesOut,    \* what getCategories returned, in a list
    parser,           \* the ReceiptParser instance the call is made on
    fields,           \* the fields of every instance
    returned,         \* the calls of parse that have returned, with results
    calls,            \* the number of calls of parse noted in returned
    fpMemo            \* what the floating-point operations met so far gave

vars == <<rawText, today, pc, lines, data, idx, calculatedTotal, calcExact,
          detectedTotal, priceStr, priceOut, descArg, labelOut,
          categoriesOut, parser, fields, returned, calls, fpMemo>>

parseVars == <<rawText, today, pc, lines, data, idx, calculatedTotal,
               calcExact, detectedTotal>>

priceVars == <<priceStr, priceOut>>

categorizerVars == <<descArg, labelOut, categoriesOut>>

sessionVars == <<parser, fields, returned, calls>>

-----------------------------------------------------------------------------
(* Bounds of the model. *)

\* Texts of up to MaxLines lines of the line pool are parsed.
MaxLines == 2

\* Every string over PriceAlphabet of up to MaxPriceLen characters is
\* given to parsePrice.
MaxPriceLen == 4

\* Up to MaxCalls calls of parse are made one after the other.
MaxCalls == 3

\* The descriptions given to categorize have up to MaxWords words.
MaxWords == 2

-----------------------------------------------------------------------------
(* Characters and strings. *)

DigitChars == <<"0", "1", "2", "3", "4", "5", "6", "7", "8", "9">>

Digits == {DigitChars[i] : i \in 1..10}

IsDigit(c) == c \in Digits

DigitVal(c) == (CHOOSE i \in 1..10 : DigitChars[i] = c) - 1

LowerChars == <<"a", "b", "c", "d", "e", "f", "g", "h", "i", "j", "k", "l",
                "m", "n", "o", "p", "q", "r", "s", "t", "u", "v", "w", "x",
                "y", "z", "á", "é", "í", "ñ", "ó", "ú">>

UpperChars == <<"A", "B", "C", "D", "E", "F", "G", "H", "I", "J", "K", "L",
                "M", "N", "O", "P", "Q", "R", "S", "T", "U", "V", "W", "X",
                "Y", "Z", "Á", "É", "Í", "Ñ", "Ó", "Ú">>

\* \w of a regular expression without the u flag: ASCII only.
WordChars == {LowerChars[i] : i \in 1..26} \cup {UpperChars[i] : i \in 1..26}
             \cup Digits \cup {"_"}

IsWordChar(c) == c \in WordChars

\* \s of a regular expression, and what String.prototype.trim strips.
WhiteSpace == {" ", "\t", "\r", "\n"}

IsSpace(c) == c \in WhiteSpace

\* The . of a regular expression: any character but a line terminator.
IsAnyChar(c) == c \notin {"\n", "\r"}

\* The uppercase letter of each lowercase letter.
UpperOf ==
    [c \in {LowerChars[i] : i \in 1..Len(LowerChars)} |->
        UpperChars[CHOOSE i \in 1..Len(LowerChars) : LowerChars[i] = c]]

ToUpperChar(c) == IF c \in DOMAIN UpperOf THEN UpperOf[c] ELSE c

\* The one letter of the alphabet whose upper case is two letters.
SharpS == "ß"

\* s.toUpperCase(): letter by letter, and SS for each sharp s.
toUpperCase(s) ==
    IF \A i \in 1..Len(s) : s[i] # SharpS
    THEN [i \in 1..Len(s) |-> ToUpperChar(s[i])]
    ELSE LET before(i) == Cardinality({j \in 1..(i - 1) : s[j] = SharpS})
             n == Len(s) + before(Len(s) + 1)
         IN  [q \in 1..n |->
                LET i == CHOOSE x \in 1..Len(s) :
                            /\ x + before(x) <= q
                            /\ q <= x + before(x + 1)
                IN  IF s[i] = SharpS THEN "S" ELSE ToUpperChar(s[i])]

\* s.substring(from - 1, to) in 1-based positions from..to.
Sub(s, from, to) == IF from > to THEN <<>> ELSE SubSeq(s, from, to)

RECURSIVE TrimStart(_)
TrimStart(s) ==
    IF s # <<>> /\ IsSpace(s[1]) THEN TrimStart(Tail(s)) ELSE s

RECURSIVE TrimEnd(_)
TrimEnd(s) ==
    IF s # <<>> /\ IsSpace(s[Len(s)])
    THEN TrimEnd(Sub(s, 1, Len(s) - 1)) ELSE s

trim(s) == TrimEnd(TrimStart(s))

\* Whether sub occurs in s at position i.
OccursAt(s, sub, i) ==
    /\ i >= 1
    /\ i + Len(sub) - 1 <= Len(s)
    /\ \A k \in 1..Len(sub) : s[i + k - 1] = sub[k]

\* s.includes(sub)
includes(s, sub) == \E i \in 1..(Len(s) + 1) : OccursAt(s, sub, i)

\* s.lastIndexOf(c) for a character c, 1-based; 0 when c is not in s.
lastIndexOf(s, c) ==
    IF \E i \in 1..Len(s) : s[i] = c
    THEN CHOOSE i \in 1..Len(s) :
            s[i] = c /\ \A j \in (i + 1)..Len(s) : s[j] # c
    ELSE 0

\* s.replace(/[set]/g, ''): every character of the set removed.
RemoveAll(s, set) == SelectSeq(s, LAMBDA c : c \notin set)

\* s.replace(c, d) with a string pattern: only the FIRST occurrence of c.
ReplaceFirst(s, c, d) ==
    IF \E i \in 1..Len(s) : s[i] = c
    THEN LET p == CHOOSE i \in 1..Len(s) :
                     s[i] = c /\ \A j \in 1..(i - 1) : s[j] # c
         IN  [i \in 1..Len(s) |-> IF i = p THEN d ELSE s[i]]
    ELSE s

\* The end of the run of digits that starts at position i (i - 1 when s[i]
\* is no digit).
DigitRunEnd(s, i) ==
    IF \E j \in i..Len(s) : ~IsDigit(s[j])
    THEN (CHOOSE j \in i..Len(s) :
             ~IsDigit(s[j]) /\ \A k \in i..(j - 1) : IsDigit(s[k])) - 1
    ELSE Len(s)

-----------------------------------------------------------------------------
(* Numbers. *)

RECURSIVE Pow10(_)
Pow10(n) == IF n <= 0 THEN 1 ELSE 10 * Pow10(n - 1)

NaN == [k |-> "nan", m |-> 0, e |-> 0]

Infinity == [k |-> "inf", m |-> 1, e |-> 0]

\* The decimal m * 10^(-e) with the trailing zeros of its fraction dropped,
\* so that equal numbers are equal records.
RECURSIVE Num(_, _)
Num(m, e) ==
    IF e > 0 /\ m % 10 = 0 THEN Num(m \div 10, e - 1)
    ELSE [k |-> "num", m |-> m, e |-> e]

Zero == Num(0, 0)

IsFinite(a) == a.k = "num"

Scale(a, b) == IF a.e > b.e THEN a.e ELSE b.e

Aligned(a, s) == a.m * Pow10(s - a.e)

\* a < b (false when one of them is NaN).
NumLt(a, b) ==
    CASE a.k = "nan" \/ b.k = "nan" -> FALSE
      [] a.k = "inf" /\ b.k = "inf" -> a.m < b.m
      [] a.k = "inf" -> a.m < 0
      [] b.k = "inf" -> b.m > 0
      [] OTHER -> Aligned(a, Scale(a, b)) < Aligned(b, Scale(a, b))

NumGt(a, b) == NumLt(b, a)

\* a + b for finite a and b, and for an infinity of one sign.
NumAdd(a, b) ==
    CASE a.k = "inf" -> a
      [] b.k = "inf" -> b
      [] OTHER -> Num(Aligned(a, Scale(a, b)) + Aligned(b, Scale(a, b)),
                      Scale(a, b))

\* Math.abs(a - b)
NumAbsDiff(a, b) ==
    CASE a.k = "inf" /\ b.k = "inf" -> NaN
      [] a.k = "inf" \/ b.k = "inf" -> Infinity
      [] OTHER ->
           LET x == Aligned(a, Scale(a, b))
               y == Aligned(b, Scale(a, b))
           IN  Num(IF x >= y THEN x - y ELSE y - x, Scale(a, b))

\* Math.max(a, b)
NumMax(a, b) == IF NumLt(a, b) THEN b ELSE a

-----------------------------------------------------------------------------
(* parseFloat. *)

\* The value of a sequence of digits read as a decimal integer.
RECURSIVE DigitsValue(_)
DigitsValue(ds) ==
    IF ds = <<>> THEN 0
    ELSE 10 * DigitsValue(Sub(ds, 1, Len(ds) - 1)) + DigitVal(ds[Len(ds)])

RECURSIVE StripLeadingZeros(_)
StripLeadingZeros(ds) ==
    IF ds # <<>> /\ ds[1] = "0" THEN StripLeadingZeros(Tail(ds)) ELSE ds

\* The digits of 2^1024 - 2^970, the least real number that the conversion
\* to an IEEE 754 double (round to nearest, ties to even) takes to Infinity.
DoubleOverflowDigits ==
    <<1, 7, 9, 7, 6, 9, 3, 1, 3, 4, 8, 6, 2, 3, 1, 5, 8, 0, 7, 9, 3, 7, 2, 8, 9, 7, 1, 4, 0, 5,
      3, 0, 3, 4, 1, 5, 0, 7, 9, 9, 3, 4, 1, 3, 2, 7, 1, 0, 0, 3, 7, 8, 2, 6, 9, 3, 6, 1, 7, 3,
      7, 7, 8, 9, 8, 0, 4, 4, 4, 9, 6, 8, 2, 9, 2, 7, 6, 4, 7, 5, 0, 9, 4, 6, 6, 4, 9, 0, 1, 7,
      9, 7, 7, 5, 8, 7, 2, 0, 7, 0, 9, 6, 3, 3, 0, 2, 8, 6, 4, 1, 6, 6, 9, 2, 8, 8, 7, 9, 1, 0,
      9, 4, 6, 5, 5, 5, 5, 4, 7, 8, 5, 1, 9, 4, 0, 4, 0, 2, 6, 3, 0, 6, 5, 7, 4, 8, 8, 6, 7, 1,
      5, 0, 5, 8, 2, 0, 6, 8, 1, 9, 0, 8, 9, 0, 2, 0, 0, 0, 7, 0, 8, 3, 8, 3, 6, 7, 6, 2, 7, 3,
      8, 5, 4, 8, 4, 5, 8, 1, 7, 7, 1, 1, 5, 3, 1, 7, 6, 4, 4, 7, 5, 7, 3, 0, 2, 7, 0, 0, 6, 9,
      8, 5, 5, 5, 7, 1, 3, 6, 6, 9, 5, 9, 6, 2, 2, 8, 4, 2, 9, 1, 4, 8, 1, 9, 8, 6, 0, 8, 3, 4,
      9, 3, 6, 4, 7, 5, 2, 9, 2, 7, 1, 9, 0, 7, 4, 1, 6, 8, 4, 4, 4, 3, 6, 5, 5, 1, 0, 7, 0, 4,
      3, 4, 2, 7, 1, 1, 5, 5, 9, 6, 9, 9, 5, 0, 8, 0, 9, 3, 0, 4, 2, 8, 8, 0, 1, 7, 7, 9, 0, 4,
      1, 7, 4, 4, 9, 7, 7, 9, 2>>

\* Whether the integer written by the digits ds is at least 2^1024 - 2^970.
OverflowsDouble(ds) ==
    LET d == StripLeadingZeros(ds)
        n == Len(DoubleOverflowDigits)
    IN  \/ Len(d) > n
        \/ /\ Len(d) = n
           /\ \/ \A i \in 1..n : DigitVal(d[i]) = DoubleOverflowDigits[i]
              \/ \E p \in 1..n :
                    /\ \A i \in 1..(p - 1) :
                          DigitVal(d[i]) = DoubleOverflowDigits[i]
                    /\ DigitVal(d[p]) > DoubleOverflowDigits[p]

\* parseFloat(s): the number written by the longest prefix of the trimmed
\* string that is a decimal literal (an optional sign, digits, an optional
\* point and digits), NaN when there is none.  The exponent part and the
\* literal "Infinity" need letters, which no caller leaves in the string.
parseFloat(s) ==
    LET t == TrimStart(s)
        signed == t # <<>> /\ t[1] \in {"+", "-"}
        sign == IF signed /\ t[1] = "-" THEN -1 ELSE 1
        u == IF signed THEN Tail(t) ELSE t
        intEnd == DigitRunEnd(u, 1)
        intDigits == Sub(u, 1, intEnd)
        hasPoint == intEnd + 1 <= Len(u) /\ u[intEnd + 1] = "."
        fracEnd == IF hasPoint THEN DigitRunEnd(u, intEnd + 2) ELSE intEnd
        fracDigits == IF hasPoint THEN Sub(u, intEnd + 2, fracEnd) ELSE <<>>
    IN  IF intDigits = <<>> /\ fracDigits = <<>> THEN NaN
        ELSE IF OverflowsDouble(intDigits)
             THEN [k |-> "inf", m |-> sign, e |-> 0]
             ELSE Num(sign * DigitsValue(StripLeadingZeros(intDigits) \o fracDigits),
                      Len(fracDigits))

\* v || 0: NaN and 0 are falsy.
OrZero(v) == IF v.k = "nan" \/ v = Zero THEN Zero ELSE v

-----------------------------------------------------------------------------
(* ReceiptParser.parsePrice. *)

CurrencyChars == {"€", "$", "£", "e", "E"}

\* Remove currency symbols and spaces.
StripCurrency(s) == trim(RemoveAll(s, CurrencyChars))

\* Handle common OCR character misreads in numbers.
OcrDigit(c) ==
    CASE c \in {"O", "o"} -> "0"
      [] c \in {"I", "l", "|"} -> "1"
      [] c \in {"S", "s"} -> "5"
      [] c = "B" -> "8"
      [] c = "G" -> "6"
      [] c = "Z" -> "2"
      [] OTHER -> c

OcrFix(s) == [i \in 1..Len(s) |-> OcrDigit(s[i])]

\* A slip: a comma is the decimal point only when there is a dot as well.
FixSeparatorsBothOnly(s) ==
    IF includes(s, <<",">>) /\ includes(s, <<".">>)
    THEN IF lastIndexOf(s, ",") > lastIndexOf(s, ".")
         THEN ReplaceFirst(RemoveAll(s, {"."}), ",", ".")
         ELSE RemoveAll(s, {","})
    ELSE s

\* Handle European vs US decimals.
FixSeparators(s) ==
    IF includes(s, <<",">>) /\ includes(s, <<".">>)
    THEN IF lastIndexOf(s, ",") > lastIndexOf(s, ".")
         THEN ReplaceFirst(RemoveAll(s, {"."}), ",", ".")
         ELSE RemoveAll(s, {","})
    ELSE IF includes(s, <<",">>)
         THEN ReplaceFirst(s, ",", ".")
         ELSE s

\* Final cleanup: remove anything that's not a digit or a dot.
KeepDigitsAndDots(s) == SelectSeq(s, LAMBDA c : IsDigit(c) \/ c = ".")

parsePrice(s) ==
    IF s = <<>> THEN Zero
    ELSE OrZero(parseFloat(KeepDigitsAndDots(FixSeparators(OcrFix(
             StripCurrency(s))))))

-----------------------------------------------------------------------------
(* Direct calls of parsePrice. *)

\* No call of parsePrice has returned yet.
NoResult == [k |-> "none", m |-> 0, e |-> 0]

PriceAlphabet == {"0", "1", "2", ",", ".", "O", "-", " "}

\* The letters parsePrice reads as digits, and one digit.
OcrAlphabet == {"O", "o", "I", "l", "|", "S", "s", "B", "G", "Z", "7"}

\* The prices the documentation of parsePrice names, and strings with
\* several separators of both kinds.
NamedPrices ==
    { <<"1", ",", "2", "5">>,
      <<"1", ".", "2", "0", "0", ",", "5", "0">>,
      <<"1", ",", "2", "0", "0", ".", "5", "0">>,
      <<"1", "2", ",", "5", "O">>,
      <<"1", ",", "2", ".", "3", ",", "4">>,
      <<"1", ".", "2", ",", "3", ".", "4">>,
      <<"1", ",", "2", ",", "3", ".", "4">>,
      <<"1", ".", "2", ".", "3", ",", "4">>,
      <<"1", "2", ",", "5", "0", " ", "€">>,
      <<"$", "3", ".", "9", "9">> }

\* Runs of one digit that write an integer above the largest double: as
\* long as the decimal expansion of 2^1024 - 2^970, or one digit longer.
\* (A finite number is held as an integer mantissa, so the long runs that
\* stay below the largest double are not among the inputs.)
LongDigitRuns ==
    { [i \in 1..n |-> d] : n \in 309..310, d \in {"2", "9"} }

PriceInputs ==
    UNION { [1..n -> PriceAlphabet] : n \in 0..MaxPriceLen }
    \cup { <<a, ",", b, c>> : a \in OcrAlphabet, b \in OcrAlphabet,
                              c \in OcrAlphabet }
    \cup NamedPrices
    \cup LongDigitRuns

\* The parser instances of a session.
Parsers == {1, 2}

\* constructor(): the two fields of an instance, both regular expressions
\* with the i flag only, as new objects.
Constructed ==
    [currencyRegex |-> [flags |-> "i", lastIndex |-> 0],
     lineItemRegex |-> [flags |-> "i", lastIndex |-> 0]]

\* No call of the categorizer has been made.
NoCategorizerCall ==
    /\ descArg = [k |-> "undefined", s |-> <<>>]
    /\ labelOut = <<>>
    /\ categoriesOut = <<>>

\* Before any call: the instances as constructed, nothing returned yet.
FreshSession ==
    /\ parser = 1
    /\ fields = [p \in Parsers |-> Constructed]
    /\ returned = {}
    /\ calls = 0
    /\ fpMemo = <<>>

PriceInit ==
    /\ priceStr \in PriceInputs
    /\ priceOut = NoResult
    /\ rawText = <<>>
    /\ today = <<>>
    /\ pc = "idle"
    /\ lines = <<>>
    /\ data = <<>>
    /\ idx = 0
    /\ calculatedTotal = Zero
    /\ calcExact = TRUE
    /\ detectedTotal = Zero
    /\ NoCategorizerCall
    /\ FreshSession

CallParsePrice ==
    /\ priceOut = NoResult
    /\ priceOut' = parsePrice(priceStr)
    /\ UNCHANGED <<priceStr, parseVars, categorizerVars, sessionVars, fpMemo>>

PriceNext == CallParsePrice

PriceSpec == PriceInit /\ [][PriceNext]_vars

-----------------------------------------------------------------------------
(* ReceiptParser.parse: the lines. *)

\* s.split('\n')
RECURSIVE split(_)
split(s) ==
    IF \E i \in 1..Len(s) : s[i] = "\n"
    THEN LET p == CHOOSE i \in 1..Len(s) :
                     s[i] = "\n" /\ \A j \in 1..(i - 1) : s[j] # "\n"
         IN  <<Sub(s, 1, p - 1)>> \o split(Sub(s, p + 1, Len(s)))
    ELSE <<s>>

\* rawText.split('\n').map(l => l.trim()).filter(l => l.length > 0)
SplitLines(text) ==
    SelectSeq([i \in 1..Len(split(text)) |-> trim(split(text)[i])],
              LAMBDA l : Len(l) > 0)

\* ls.join(sep)
RECURSIVE join(_, _)
join(ls, sep) ==
    IF ls = <<>> THEN <<>>
    ELSE IF Len(ls) = 1 THEN ls[1]
    ELSE ls[1] \o sep \o join(Tail(ls), sep)

Sentinel == <<"D", "e", "s", "c", "o", "n", "o", "c", "i", "d", "o">>

DefaultCategory == <<"O", "t", "r", "o", "s">>

\* A slip: data is one object kept from call to call, whose items are
\* never emptied.
InitialDataShared(date) ==
    IF calls = 0
    THEN [merchant |-> Sentinel, date |-> date, total |-> Zero, items |-> <<>>]
    ELSE [merchant |-> Sentinel, date |-> date, total |-> Zero,
          items |-> data.items]

\* A slip: the default date is a fixed one, not the processing date.
InitialDataFixedDate(date) ==
    [merchant |-> Sentinel, date |-> <<"1", "9", "7", "0", "-", "0", "1", "-", "0", "1">>, total |-> Zero,
     items |-> <<>>]

\* A slip: the default merchant is the empty string.
InitialDataNoMerchant(date) ==
    [merchant |-> <<>>, date |-> date, total |-> Zero, items |-> <<>>]

\* const data = { merchant: 'Desconocido', date: <today>, total: 0, items: [] }
InitialData(date) ==
    [merchant |-> Sentinel, date |-> date, total |-> Zero, items |-> <<>>]

-----------------------------------------------------------------------------
(* ReceiptParser.parse: 1. Merchant Detection. *)

\* The regular expressions of the table are of three shapes:
\*   "spaced"  L1\s*L2\s*...\s*Ln    letters with any whitespace between
\*   "dotted"  L1\.?L2\.?...\.?Ln    letters with an optional '.' between
\*   "dia"     \bDI.?A\b
\* all with the i flag.
Spaced(w) == [kind |-> "spaced", word |-> w]
Dotted(w) == [kind |-> "dotted", word |-> w]
Dia == [kind |-> "dia", word |-> <<"D", "I", "A">>]

establishments ==
    << [name |-> <<"M", "E", "R", "C", "A", "D", "O", "N", "A">>,
        regexes |-> <<Spaced(<<"M", "E", "R", "C", "A", "D", "O", "N", "A">>), Spaced(<<"M", "E", "R", "K", "A", "D", "O", "N", "A">>)>>],
       [name |-> <<"C", "A", "R", "R", "E", "F", "O", "U", "R">>,
        regexes |-> <<Spaced(<<"C", "A", "R", "R", "E", "F", "O", "U", "R">>), Spaced(<<"C", "F", "R">>),
                      Spaced(<<"C", "A", "R", "E", "F", "U", "R">>)>>],
       [name |-> <<"L", "I", "D", "L">>, regexes |-> <<Spaced(<<"L", "I", "D", "L">>)>>],
       [name |-> <<"A", "L", "D", "I">>, regexes |-> <<Spaced(<<"A", "L", "D", "I">>)>>],
       [name |-> <<"A", "H", "O", "R", "R", "A", "M", "A", "S">>, regexes |-> <<Spaced(<<"A", "H", "O", "R", "R", "A", "M", "A", "S">>)>>],
       [name |-> <<"C", "O", "N", "S", "U", "M">>, regexes |-> <<Spaced(<<"C", "O", "N", "S", "U", "M">>)>>],
       [name |-> <<"D", "I", "A">>, regexes |-> <<Dia>>],
       [name |-> <<"E", "L", " ", "C", "O", "R", "T", "E", " ", "I", "N", "G", "L", "E", "S">>,
        regexes |-> <<Spaced(<<"C", "O", "R", "T", "E", "I", "N", "G", "L", "E", "S">>), Dotted(<<"I", "N", "G", "L", "E", "S">>)>>],
       [name |-> <<"H", "I", "P", "E", "R", "C", "O", "R">>, regexes |-> <<Spaced(<<"H", "I", "P", "E", "R", "C", "O", "R">>)>>],
       [name |-> <<"E", "R", "O", "S", "K", "I">>, regexes |-> <<Spaced(<<"E", "R", "O", "S", "K", "I">>)>>] >>

\* A letter of a pattern against a character of the text, under the i flag.
SameLetter(c, l) == ToUpperChar(c) = ToUpperChar(l)

\* The first position at or after i that holds no whitespace.
SkipSpaces(s, i) ==
    IF \E j \in i..Len(s) : ~IsSpace(s[j])
    THEN CHOOSE j \in i..Len(s) :
            ~IsSpace(s[j]) /\ \A k \in i..(j - 1) : IsSpace(s[k])
    ELSE Len(s) + 1

\* Whether L1\s*L2\s*...\s*Ln matches s from position i on.
RECURSIVE MatchSpacedAt(_, _, _)
MatchSpacedAt(s, w, i) ==
    IF w = <<>> THEN TRUE
    ELSE /\ i <= Len(s)
         /\ SameLetter(s[i], w[1])
         /\ IF Len(w) = 1 THEN TRUE
            ELSE MatchSpacedAt(s, Tail(w), SkipSpaces(s, i + 1))

\* Whether L1\.?L2\.?...\.?Ln matches s from position i on.
RECURSIVE MatchDottedAt(_, _, _)
MatchDottedAt(s, w, i) ==
    IF w = <<>> THEN TRUE
    ELSE /\ i <= Len(s)
         /\ SameLetter(s[i], w[1])
         /\ IF Len(w) = 1 THEN TRUE
            ELSE MatchDottedAt(s, Tail(w),
                     IF i + 1 <= Len(s) /\ s[i + 1] = "." THEN i + 2
                     ELSE i + 1)

\* \b between positions i - 1 and i of s.
WordBoundary(s, i) ==
    (i - 1 >= 1 /\ IsWordChar(s[i - 1])) # (i <= Len(s) /\ IsWordChar(s[i]))

\* Whether \bDI.?A\b matches s from position i on.
MatchDiaAt(s, i) ==
    /\ WordBoundary(s, i)
    /\ i + 2 <= Len(s)
    /\ SameLetter(s[i], "D")
    /\ SameLetter(s[i + 1], "I")
    /\ \/ /\ i + 3 <= Len(s)
          /\ IsAnyChar(s[i + 2])
          /\ SameLetter(s[i + 3], "A")
          /\ WordBoundary(s, i + 4)
       \/ /\ SameLetter(s[i + 2], "A")
          /\ WordBoundary(s, i + 3)

\* rx.test(s)
RegexTest(rx, s) ==
    \E i \in 1..Len(s) :
        CASE rx.kind = "spaced" -> MatchSpacedAt(s, rx.word, i)
          [] rx.kind = "dotted" -> MatchDottedAt(s, rx.word, i)
          [] OTHER -> MatchDiaAt(s, i)

\* regexes.some(rx => rx.test(fullText))
AliasMatches(entry, fullText) ==
    \E r \in 1..Len(entry.regexes) : RegexTest(entry.regexes[r], fullText)

\* A slip: the loop does not stop at the first entry that matches, so the
\* last one wins.
KnownMerchantLastWins(ls, merchant) ==
    LET fullText == toUpperCase(join(ls, <<" ">>))
        hits == {n \in 1..Len(establishments) :
                    AliasMatches(establishments[n], fullText)}
    IN  IF hits = {} THEN merchant
        ELSE establishments[CHOOSE n \in hits : \A h \in hits : n >= h].name

\* Priority 1: the name of the first entry of the table one of whose
\* expressions matches the whole text; the merchant so far when none does.
KnownMerchant(ls, merchant) ==
    LET fullText == toUpperCase(join(ls, <<" ">>))
        hits == {n \in 1..Len(establishments) :
                    AliasMatches(establishments[n], fullText)}
    IN  IF hits = {} THEN merchant
        ELSE establishments[CHOOSE n \in hits : \A h \in hits : n <= h].name

\* Math.min(lines.length, 12)
FallbackScanLimit == 12

\* /\d{2,}/.test(s)
HasDigitRun2(s) ==
    \E i \in 1..(Len(s) - 1) : IsDigit(s[i]) /\ IsDigit(s[i + 1])

\* /CALLE|AVENIDA|C\/|TLF|TEL:|CIF|NIF|TICKET/i
AddressWords ==
    { <<"C", "A", "L", "L", "E">>, <<"A", "V", "E", "N", "I", "D", "A">>, <<"C", "/">>, <<"T", "L", "F">>, <<"T", "E", "L", ":">>, <<"C", "I", "F">>, <<"N", "I", "F">>,
      <<"T", "I", "C", "K", "E", "T">> }

HasAddressWord(s) == \E w \in AddressWords : includes(toUpperCase(s), w)

\* The condition of the fallback loop on lines[i].toUpperCase().
IsMerchantLine(line) ==
    /\ Len(line) > 3
    /\ ~HasDigitRun2(line)
    /\ ~HasAddressWord(line)

\* Priority 2: the first of the first 12 lines, uppercased, that passes.
FallbackMerchant(ls, merchant) ==
    IF merchant = Sentinel
    THEN LET n == IF Len(ls) < FallbackScanLimit THEN Len(ls)
                  ELSE FallbackScanLimit
             ok == {i \in 1..n : IsMerchantLine(toUpperCase(ls[i]))}
         IN  IF ok = {} THEN merchant
             ELSE trim(toUpperCase(ls[CHOOSE i \in ok : \A j \in ok : i <= j]))
    ELSE merchant

-----------------------------------------------------------------------------
(* ReceiptParser.parse: 2. Date Detection. *)

DateSeparators == {"-", "/", "."}

AllDigits(s, from, to) ==
    /\ from >= 1
    /\ to <= Len(s)
    /\ \A k \in from..to : IsDigit(s[k])

\* Whether /\b(\d{1,2})[-/.](\d{1,2})[-/.](\d{2,4})\b/ matches s from
\* position i on with groups of a, b and c digits.
DateMatchesAt(s, i, a, b, c) ==
    /\ WordBoundary(s, i)
    /\ i + a + b + c + 1 <= Len(s)
    /\ AllDigits(s, i, i + a - 1)
    /\ s[i + a] \in DateSeparators
    /\ AllDigits(s, i + a + 1, i + a + b)
    /\ s[i + a + b + 1] \in DateSeparators
    /\ AllDigits(s, i + a + b + 2, i + a + b + c + 1)
    /\ WordBoundary(s, i + a + b + c + 2)

\* The numbers of digits that the three groups can have.
DateShapes == (1..2) \X (1..2) \X (2..4)

\* The shapes with which the expression matches s from position i on.
DateShapesAt(s, i) ==
    IF IsDigit(s[i]) /\ WordBoundary(s, i)
    THEN {g \in DateShapes : DateMatchesAt(s, i, g[1], g[2], g[3])}
    ELSE {}

\* Of two shapes at one position the expression takes the one with the
\* longer groups, the earlier group first (the quantifiers are greedy).
ShapeBefore(g, h) ==
    \/ g[1] > h[1]
    \/ g[1] = h[1] /\ g[2] > h[2]
    \/ g[1] = h[1] /\ g[2] = h[2] /\ g[3] >= h[3]

HasDateMatch(s) == \E i \in 1..Len(s) : DateShapesAt(s, i) # {}

\* line.match(dateRegex): the groups [day, month, year] of the leftmost
\* match, <<>> for null.
DateMatch(s) ==
    IF ~HasDateMatch(s) THEN <<>>
    ELSE LET i == CHOOSE x \in 1..Len(s) :
                     /\ DateShapesAt(s, x) # {}
                     /\ \A y \in 1..(x - 1) : DateShapesAt(s, y) = {}
             g == CHOOSE x \in DateShapesAt(s, i) :
                     \A y \in DateShapesAt(s, i) : ShapeBefore(x, y)
         IN  << Sub(s, i, i + g[1] - 1),
                Sub(s, i + g[1] + 1, i + g[1] + g[2]),
                Sub(s, i + g[1] + g[2] + 2, i + g[1] + g[2] + g[3] + 1) >>

\* s.padStart(2, '0')
padStart2(s) ==
    IF Len(s) >= 2 THEN s
    ELSE IF Len(s) = 1 THEN <<"0">> \o s
    ELSE <<"0", "0">>

\* parseInt(s) of a string of digits.
parseInt(s) == DigitsValue(s)

MonthsInYear == 12

\* A slip: day and month are never swapped.
NormalizeDateNoSwap(m) ==
    LET year == IF Len(m[3]) = 2 THEN <<"2", "0">> \o m[3] ELSE m[3]
    IN  year \o <<"-">> \o padStart2(m[2]) \o <<"-">> \o padStart2(m[1])

\* Basic validation and normalization of the groups of a match.
NormalizeDate(m) ==
    LET swap == parseInt(m[2]) > MonthsInYear
        day == IF swap THEN m[2] ELSE m[1]
        month == IF swap THEN m[1] ELSE m[2]
        year == IF Len(m[3]) = 2 THEN <<"2", "0">> \o m[3] ELSE m[3]
    IN  year \o <<"-">> \o padStart2(month) \o <<"-">> \o padStart2(day)

\* A slip: the date of the last line that holds a match.
DetectedDateOfLastLine(ls, date) ==
    LET hits == {i \in 1..Len(ls) : HasDateMatch(ls[i])}
    IN  IF hits = {} THEN date
        ELSE NormalizeDate(DateMatch(ls[CHOOSE i \in hits :
                                           \A j \in hits : i >= j]))

\* The date of the first line that holds a match; the date so far if none.
DetectedDate(ls, date) ==
    LET hits == {i \in 1..Len(ls) : HasDateMatch(ls[i])}
    IN  IF hits = {} THEN date
        ELSE NormalizeDate(DateMatch(ls[CHOOSE i \in hits :
                                           \A j \in hits : i <= j]))

-----------------------------------------------------------------------------
(* ReceiptParser.isLikelyItem, ReceiptParser.isNoise. *)

PriceSeparators == {",", "."}

\* Whether \d[.,]\d{2} is at position c of s.
PriceTailAt(s, c) ==
    /\ c >= 1
    /\ c + 3 <= Len(s)
    /\ IsDigit(s[c])
    /\ s[c + 1] \in PriceSeparators
    /\ IsDigit(s[c + 2])
    /\ IsDigit(s[c + 3])

\* /^\d+.+\d+[.,]\d{2}/.test(line).  A digit is also a character that .
\* matches, so there is a match if and only if there is one whose ^\d+ is
\* the first character and whose second \d+ is a single digit.
isLikelyItem(line) ==
    /\ Len(line) >= 1
    /\ IsDigit(line[1])
    /\ \E c \in 3..Len(line) :
          /\ PriceTailAt(line, c)
          /\ \A k \in 2..(c - 1) : IsAnyChar(line[k])

noiseKeywords ==
    { <<"I", "V", "A">>, <<"F", "A", "C", "T", "U", "R", "A">>, <<"T", "I", "C", "K", "E", "T">>, <<"T", "E", "L", "É", "F", "O", "N", "O">>, <<"G", "R", "A", "C", "I", "A", "S">>, <<"C", ".", "I", ".", "F">>,
      <<"N", ".", "I", ".", "F">>, <<"P", "Á", "G", "I", "N", "A">>, <<"C", "H", "A", "N", "G", "E">>, <<"C", "A", "M", "B", "I", "O">>, <<"E", "N", "T", "R", "E", "G", "A", "D", "O">>,
      <<"E", "F", "E", "C", "T", "I", "V", "O">> }

\* A slip: a line that holds a noise keyword is noise, not only a line that
\* is one.
isNoiseHoldingKeyword(line) ==
    \/ \E k \in noiseKeywords : includes(toUpperCase(line), k)
    \/ /\ includes(toUpperCase(line), <<"T", "O", "T", "A", "L">>)
       /\ ~\E i \in 1..Len(line) : IsDigit(line[i])

isNoise(line) ==
    \/ toUpperCase(line) \in noiseKeywords
    \/ /\ includes(toUpperCase(line), <<"T", "O", "T", "A", "L">>)
       /\ ~\E i \in 1..Len(line) : IsDigit(line[i])

\* The item loop goes on to the next line without looking for prices.
SkipsLine(line) == ~isLikelyItem(line) /\ isNoise(line)

-----------------------------------------------------------------------------
(* ReceiptParser.parse: 3. Item Extraction. *)

\* [...line.matchAll(/(\d+[.,]\d{2,3})/g)] from position pos on: the matches
\* left to right, each with its index (1-based) and its text.  \d+ takes
\* the whole run of digits and \d{2,3} the third digit when there is one.
RECURSIVE ScanPrices(_, _)
ScanPrices(s, pos) ==
    IF pos > Len(s) THEN <<>>
    ELSE IF IsDigit(s[pos]) /\ PriceTailAt(s, DigitRunEnd(s, pos))
    THEN LET j == DigitRunEnd(s, pos)
             end == IF j + 4 <= Len(s) /\ IsDigit(s[j + 4]) THEN j + 4
                    ELSE j + 3
         IN  <<[index |-> pos, text |-> Sub(s, pos, end)]>>
             \o ScanPrices(s, end + 1)
    ELSE ScanPrices(s, pos + 1)

allPriceMatches(line) == ScanPrices(line, 1)

\* A slip: the test of the length lets an empty list of matches through.
HasPriceMatchesUnchecked(matches) == Len(matches) >= 0

\* allPriceMatches.length > 0
HasPriceMatches(matches) == Len(matches) > 0

\* A slip: the last price is the price of the item, whatever their number.
PriceIdxLast(matches) == Len(matches)

\* If multiple prices exist, pick the second-to-last as "P. Unit"; if only
\* one exists, it's the "Importe".  (1-based.)
PriceIdx(matches) ==
    IF Len(matches) >= 2 THEN Len(matches) - 1 ELSE Len(matches)

\* A slip: the amount for the total is the price stored for the item.
AmountIdxOfPrice(matches) ==
    IF Len(matches) >= 2 THEN Len(matches) - 1 ELSE Len(matches)

\* allPriceMatches.length - 1, the last match.  (1-based.)
AmountIdx(matches) == Len(matches)

\* s.replace(/^\d+\s+/, '')
StripLeadingQuantity(s) ==
    LET j == DigitRunEnd(s, 1)
    IN  IF j >= 1 /\ j + 1 <= Len(s) /\ IsSpace(s[j + 1])
        THEN Sub(s, SkipSpaces(s, j + 1), Len(s))
        ELSE s

\* s.replace(/^\d+/, '')
StripLeadingDigits(s) == Sub(s, DigitRunEnd(s, 1) + 1, Len(s))

\* A slip: the description keeps its leading quantity.
DescriptionWithQuantity(line, matches) ==
    trim(Sub(line, 1, matches[1].index - 1))

\* Description is everything before the FIRST price found, cleaned up.
Description(line, matches) ==
    trim(StripLeadingDigits(StripLeadingQuantity(
        trim(Sub(line, 1, matches[1].index - 1)))))

summaryKeywords ==
    { <<"T", "O", "T", "A", "L">>, <<"S", "U", "B", "T", "O", "T", "A", "L">>, <<"I", "M", "P", "O", "R", "T", "E">>, <<"T", "A", "R", "J", "E", "T", "A">>, <<"E", "F", "E", "C", "T", "I", "V", "O">>,
      <<"P", "A", "G", "O">>, <<"P", "A", "G", "A", "R">>, <<"I", "V", "A">>, <<"I", ".", "V", ".", "A">>, <<"B", "A", "S", "E">>, <<"I", "M", "P", "O", "N", "I", "B", "L", "E">>,
      <<"C", "U", "O", "T", "A">>, <<"R", "E", "C", "A", "R", "G", "O">>, <<"D", "E", "S", "C", "U", "E", "N", "T", "O">>, <<"R", "E", "D", "O", "N", "D", "E", "O">>, <<"V", "A", "L", "O", "R">>,
      <<"O", "P", "E", "R", "A", "C", "I", "O", "N">>, <<"T", "E", "R", "M", "I", "N", "A", "L">>, <<"A", "U", "T", "O", "R", "I", "Z">>, <<"C", "O", "P", "I", "A">>, <<"C", "L", "I", "E", "N", "T", "E">> }

isSummary(line) == \E k \in summaryKeywords : includes(toUpperCase(line), k)

\* /(\d{2,4}[-/.]\d{2}[-/.]\d{2,4})|(\d{9,})/.test(line).  Unanchored, the
\* first alternative matches exactly when two digits, a separator, two
\* digits, a separator and two digits follow one another somewhere.
GarbageDigitRun == 9

isGarbage(line) ==
    \/ \E i \in 1..Len(line) :
          /\ i + 7 <= Len(line)
          /\ AllDigits(line, i, i + 1)
          /\ line[i + 2] \in DateSeparators
          /\ AllDigits(line, i + 3, i + 4)
          /\ line[i + 5] \in DateSeparators
          /\ AllDigits(line, i + 6, i + 7)
    \/ \E i \in 1..Len(line) :
          AllDigits(line, i, i + GarbageDigitRun - 1)

MaxItemPrice == 1000

\* A slip: price <= 1000 for price < 1000.
PriceInRangeInclusive(price) ==
    /\ price.k # "nan"
    /\ NumGt(price, Zero)
    /\ ~NumGt(price, Num(MaxItemPrice, 0))

\* price > 0 && price < 1000
PriceInRange(price) ==
    /\ price.k # "nan"
    /\ NumGt(price, Zero)
    /\ NumLt(price, Num(MaxItemPrice, 0))

\* A slip: a line of the item shape is let through whatever its words.
AcceptsItemIfLikely(line, description, price) ==
    /\ Len(description) > 1
    /\ price.k # "nan" /\ NumGt(price, Zero)
    /\ NumLt(price, Num(MaxItemPrice, 0))
    /\ isLikelyItem(line) \/ ~(\E k \in summaryKeywords :
                                  includes(toUpperCase(line), k))
    /\ isLikelyItem(line) \/ ~isGarbage(line)

\* description.length > 1 && price > 0 && price < 1000 && !isSummary && !isGarbage
AcceptsItem(line, description, price) ==
    /\ Len(description) > 1
    /\ PriceInRange(price)
    /\ ~isSummary(line)
    /\ ~isGarbage(line)

\* A slip: the new item goes to the front of the array.
unshift(items, item) == <<item>> \o items

\* data.items.push(item)
push(items, item) == Append(items, item)

NewItem(description, price) ==
    [description |-> description, price |-> price,
     category |-> DefaultCategory]

-----------------------------------------------------------------------------
(* ReceiptParser.parse: 4. Total Detection. *)

totalKeywords ==
    { <<"T", "O", "T", "A", "L">>, <<"I", "M", "P", "O", "R", "T", "E">>, <<"P", "A", "G", "A", "R">>, <<"A", " ", "P", "A", "G", "A", "R">>, <<"L", "I", "Q", "U", "I", "D", "O">> }

\* A slip: a line with SUBTOTAL counts as a total line.
isTotalLineOrSubtotal(line) ==
    \E k \in totalKeywords : includes(toUpperCase(line), k)

isTotalLine(line) ==
    /\ \E k \in totalKeywords : includes(toUpperCase(line), k)
    /\ ~includes(toUpperCase(line), <<"S", "U", "B", "T", "O", "T", "A", "L">>)

\* line.match(/(\d+[.,]\d{2})/): the text of group 1 of the leftmost
\* match, <<>> for null.
TotalMatch(line) ==
    LET starts == {i \in 1..Len(line) :
                      IsDigit(line[i])
                      /\ PriceTailAt(line, DigitRunEnd(line, i))}
    IN  IF starts = {} THEN <<>>
        ELSE LET i == CHOOSE x \in starts : \A y \in starts : x <= y
             IN  Sub(line, i, DigitRunEnd(line, i) + 3)

\* The loop over the lines: the price of the last total line that has one.
RECURSIVE DetectedTotal(_, _)
DetectedTotal(ls, sofar) ==
    IF ls = <<>> THEN sofar
    ELSE DetectedTotal(Tail(ls),
            IF isTotalLine(ls[1]) /\ TotalMatch(ls[1]) # <<>>
            THEN parsePrice(TotalMatch(ls[1]))
            ELSE sofar)

\* A double holds a decimal exactly when the decimal is a multiple of a
\* power of 1/2: m / 10^e in lowest terms of e with 5^e dividing m.
RECURSIVE Pow5(_)
Pow5(n) == IF n <= 0 THEN 1 ELSE 5 * Pow5(n - 1)

IsExactDouble(a) == a.k = "num" /\ a.m % Pow5(a.e) = 0

DeviationThreshold == 30

\* Math.abs(data.total - calculatedTotal) > 30, computed on doubles.  The
\* doubles differ from the decimals by less than any price step, so the
\* comparison is that of the decimals, except that when the decimals are
\* exactly 30 apart and one of the doubles is inexact the difference of the
\* doubles can be 30, a little less or a little more.
\* For the pairs of DoubleDifferenceAbove30 the outcome is known: the
\* double nearest 2.2 is 2.2 + 1.8e-16 and the double nearest 32.2 is
\* 32.2 + 2.8e-15, whose difference rounds to 30.000000000000004.
DoubleDifferenceAbove30 == { <<Num(220, 2), Num(3220, 2)>> }

ExceedsThreshold(total, calc, exact) ==
    LET d == NumAbsDiff(total, calc)
    IN  IF <<total, calc>> \in DoubleDifferenceAbove30 THEN {TRUE}
        ELSE IF d = Num(DeviationThreshold, 0)
                /\ ~(exact /\ IsExactDouble(total))
        THEN {TRUE, FALSE}
        ELSE {d.k # "nan" /\ NumGt(d, Num(DeviationThreshold, 0))}

\* parseFloat(calculatedTotal.toFixed(2)).  toFixed rounds the double to
\* the nearest hundredth, the larger one on a tie; when the decimal sum
\* ends on half a hundredth an inexact double lies a little to either
\* side of the tie.
\* For the amounts of DoubleAboveTie the side is known: the double
\* nearest 2.015 is 2.015 + 1.2e-16, above the tie.
DoubleAboveTie == { Num(2015, 3) }

ToFixed2(calc, exact) ==
    IF calc.k # "num" \/ calc.e <= 2 THEN {calc}
    ELSE LET unit == Pow10(calc.e - 2)
             cents == calc.m \div unit
             rest == calc.m % unit
         IN  IF 2 * rest < unit THEN {Num(cents, 2)}
             ELSE IF 2 * rest > unit \/ exact \/ calc \in DoubleAboveTie
             THEN {Num(cents + 1, 2)}
             ELSE {Num(cents, 2), Num(cents + 1, 2)}

\* A floating-point operation on given operands always gives the same
\* result: the outcome noted in memo for the operation when there is one,
\* any of the possible outcomes otherwise.
EvaluatedAfresh(memo, key, outcomes) == outcomes

Evaluated(memo, key, outcomes) ==
    IF key \in DOMAIN memo THEN {memo[key]} ELSE outcomes

\* The memo once the operation has given got: only an operation with
\* several possible outcomes needs noting.
Remember(memo, key, outcomes, got) ==
    IF key \notin DOMAIN memo /\ Cardinality(outcomes) > 1
    THEN memo @@ (key :> got)
    ELSE memo

\* A slip: the detected total less the calculated one for the larger of
\* the two.
ReconciledByDifference(detected, calc, exceeds, rounded) ==
    IF detected = Zero \/ (NumGt(calc, Zero) /\ exceeds)
    THEN IF IsFinite(detected) /\ IsFinite(rounded)
         THEN Num(Aligned(detected, Scale(detected, rounded))
                  - Aligned(rounded, Scale(detected, rounded)),
                  Scale(detected, rounded))
         ELSE detected
    ELSE detected

\* A slip: the calculated total is taken, not the larger of the two.
ReconciledByCalculated(detected, calc, exceeds, rounded) ==
    IF detected = Zero \/ (NumGt(calc, Zero) /\ exceeds)
    THEN rounded
    ELSE detected

\* If explicitly detected total is 0 or way off, use calculated: pick the
\* larger of the two.
Reconciled(detected, calc, exceeds, rounded) ==
    IF detected = Zero \/ (NumGt(calc, Zero) /\ exceeds)
    THEN NumMax(detected, rounded)
    ELSE detected

\* Math.max(...items.map(i => i.price)) of a non-empty items.
RECURSIVE MaxPrice(_)
MaxPrice(items) ==
    IF Len(items) = 1 THEN items[1].price
    ELSE NumMax(items[1].price, MaxPrice(Tail(items)))

\* A slip: the price of the first item for the highest one.
SanityCheckedByFirstItem(total, items) ==
    IF total = Zero /\ Len(items) > 0 THEN items[1].price ELSE total

\* Final sanity check: if total is still 0, use the highest item price.
SanityChecked(total, items) ==
    IF total = Zero /\ Len(items) > 0 THEN MaxPrice(items) ELSE total

-----------------------------------------------------------------------------
(* The texts that are parsed. *)

LinePool ==
    { <<>>,
      <<" ", " ">>,
      <<"M", "E", "R", "C", "A", "D", "O", "N", "A", " ", "S", ".", "A", ".">>,
      <<"m", " ", "e", " ", "r", " ", "c", " ", "a", " ", "d", " ", "o", " ", "n", " ", "a">>,
      <<"B", "a", "r", " ", "P", "e", "p", "e">>,
      <<"0", "1", "/", "0", "2", "/", "2", "0", "2", "4">>,
      <<"0", "5", "/", "1", "3", "/", "2", "4">>,
      <<"1", "3", "/", "0", "5", "/", "2", "4">>,
      <<"1", "/", "2", "/", "1", "2", "3">>,
      <<"T", "E", "L", ":", " ", "9", "1", "2", "3", "4", "5", "6", "7", "8">>,
      <<"2", " ", "P", "A", "N", " ", "0", ",", "5", "0", " ", "1", ",", "0", "0">>,
      <<"P", "A", "N", " ", "0", ",", "5", "0">>,
      <<" ", "7", " ", "U", "P", " ", "1", ",", "2", "0", " ", "€", "\\", "r">>,
      <<"L", "E", "C", "H", "E", " ", "1", "0", "0", "0", ",", "0", "0">>,
      <<"L", "E", "C", "H", "E", " ", "9", "9", "9", ",", "9", "9">>,
      <<"A", "G", "U", "A", " ", "0", ",", "0", "0">>,
      <<"T", "O", "T", "A", "L", " ", "1", ",", "0", "0">>,
      <<"S", "U", "B", "T", "O", "T", "A", "L", " ", "9", ",", "9", "9">>,
      <<"T", "O", "T", "A", "L">> }

\* Lines that name merchants of the table, in several spellings, and
\* lines that only look like one.
MerchantPool ==
    { <<"M", " ", "E", " ", "R", " ", "C", " ", "A", " ", "D", " ", "O", " ", "N", " ", "A">>,
      <<"m", "e", "r", "c", "a", "d", "o", "n", "a">>,
      <<"M", "E", "R", "C", "A">>,
      <<"D", "O", "N", "A">>,
      <<"l", " ", "i", " ", " ", "d", "\t", "l">>,
      <<"L", "I", "D", "L">>,
      <<"A", "l", "d", "i">>,
      <<"D", " ", "I", " ", "A">>,
      <<"D", "i", "a", " ", "%">>,
      <<"M", "E", "D", "I", "A", " ", "M", "A", "R", "K", "T">>,
      <<"E", "l", " ", "C", "o", "r", "t", "e", " ", "I", "n", "g", "l", "e", "s">>,
      <<"B", "a", "r", " ", "7">> }

\* Lines with amounts and totals 30 apart, more, and less.
TotalsPool ==
    { <<"V", "I", "N", "O", " ", "3", "2", ",", "2", "0">>,
      <<"T", "O", "T", "A", "L", " ", "2", ",", "2", "0">>,
      <<"V", "I", "N", "O", " ", "4", "2", ",", "0", "0">>,
      <<"T", "o", "t", "a", "l", " ", "1", "2", ".", "0", "0">>,
      <<"3", " ", "V", "I", "N", "O", " ", "1", "5", ",", "0", "0", " ", "4", "5", ",", "0", "0">>,
      <<"P", "A", "N", " ", "0", ",", "5", "0">>,
      <<"T", "O", "T", "A", "L", " ", "1", ",", "0", "0">>,
      <<"T", "O", "T", "A", "L", " ", "4", "5", ",", "0", "0">>,
      <<"C", "A", "F", "E", " ", "1", ",", "0", "0", "5", " ", "2", ",", "0", "1", "5">> }

\* Lines shaped like items: with one, two and three price tokens, and with
\* a quantity, a keyword, a date or a long number before the price.
ItemPool ==
    { <<"2", " ", "K", "G", " ", "1", ",", "5", "0", " ", "2", ",", "0", "0", " ", "3", ",", "0", "0">>,
      <<"7", "U", "P", " ", "1", ",", "2", "0">>,
      <<"1", " ", "I", "V", "A", " ", "0", ",", "5", "0", " ", "1", ",", "0", "0">>,
      <<"2", " ", "P", "A", "N", " ", "0", "1", "-", "0", "2", "-", "2", "4", " ", "1", ",", "0", "0">>,
      <<"1", " ", "R", "E", "F", " ", "1", "2", "3", "4", "5", "6", "7", "8", "9", " ", "2", ",", "0", "0">>,
      <<"A", " ", "1", ",", "0", "0">>,
      <<"P", "A", "N", " ", "0", ",", "5", "0">>,
      <<"T", "O", "T", "A", "L", " ", "1", ",", "0", "0">>,
      <<"G", "r", "a", "c", "i", "a", "s">>,
      <<"H", "U", "E", "V", "O", "S", " ", "0", ",", "5", "0", " ", "0", ",", "0", "0">>,
      <<"Q", "U", "E", "S", "O", " ", "2", ",", "0", "0", " ", "0", ",", "0", "0">> }

\* The receipt of the documentation's end-to-end example.
\* Lines with dates: two dates on one line, dates on several lines.
DatePool ==
    { <<"5", "-", "6", "-", "0", "7", " ", "y", " ", "1", ".", "2", ".", "2", "0", "0", "3">>,
      <<"1", "3", "/", "0", "5", "/", "2", "4">>,
      <<"P", "A", "N", " ", "1", "/", "2", "/", "2", "4", " ", "0", ",", "5", "0">>,
      <<"P", "A", "N", " ", "0", ",", "5", "0">> }

NamedTexts ==
    { <<"M", "E", "R", "C", "A", "D", "O", "N", "A", " ", "S", ".", "A", ".", "\n", "0", "1", "/", "0", "2", "/", "2", "0", "2", "4", "\n", "2", " ", "P", "A", "N", " ", "0", ",", "5", "0", " ", "1", ",", "0", "0", "\n", "T", "O", "T", "A", "L", " ", "1", ",", "0", "0">> }

\* Texts for the first-lines scan: a line that qualifies as the 13th, as the
\* 12th and 13th, and a line of 3 characters that has 4 in upper case.
FallbackTexts ==
    { <<"1", "2", "\n", "1", "2", "\n", "1", "2", "\n", "1", "2", "\n", "1", "2", "\n", "1", "2", "\n", "1", "2", "\n", "1", "2", "\n", "1", "2", "\n", "1", "2", "\n", "1", "2", "\n", "1", "2", "\n", "B", "a", "r", " ", "P", "e", "p", "e">>,
      <<"1", "2", "\n", "1", "2", "\n", "1", "2", "\n", "1", "2", "\n", "1", "2", "\n", "1", "2", "\n", "1", "2", "\n", "1", "2", "\n", "1", "2", "\n", "1", "2", "\n", "1", "2", "\n", "B", "a", "r", " ", "P", "e", "p", "e", "\n", "B", "a", "r", " ", "L", "o", "l", "a">>,
      <<"a", "ß", "b">> }

\* Texts with a total line that names none of the summary keywords.
LiquidoTexts ==
    { <<"L", "I", "Q", "U", "I", "D", "O", " ", "5", ",", "0", "0">>,
      <<"P", "A", "N", " ", "0", ",", "5", "0", "\n", "L", "i", "q", "u", "i", "d", "o", " ", "5", ",", "0", "0">> }

\* Texts with noise lines, and with a noise keyword on a line with a price.
NoiseTexts ==
    { <<"G", "r", "a", "c", "i", "a", "s", "\n", "T", "O", "T", "A", "L", "\n", "P", "A", "N", " ", "0", ",", "5", "0", "\n", "e", "f", "e", "c", "t", "i", "v", "o">>,
      <<"C", "A", "M", "B", "I", "O", " ", "0", ",", "5", "0">> }

\* The texts of up to MaxLines lines of a pool.
TextsOver(pool) ==
    { join(ls, <<"\n">>) :
        ls \in UNION { [1..n -> pool] : n \in 0..MaxLines } }

Texts ==
    TextsOver(LinePool) \cup TextsOver(MerchantPool) \cup TextsOver(TotalsPool)
    \cup TextsOver(ItemPool) \cup TextsOver(DatePool)
    \cup FallbackTexts \cup LiquidoTexts \cup NoiseTexts \cup NamedTexts

\* The texts given to the calls of a session of several calls.
SessionTexts ==
    { <<>>, <<"P", "A", "N", " ", "0", ",", "5", "0", "\n", "C", "A", "F", "E", " ", "1", ",", "0", "0", "5", " ", "2", ",", "0", "1", "5">> } \cup NamedTexts

\* The dates the clock can show when parse is called.
ProcessingDates == { <<"2", "0", "2", "6", "-", "1", "1", "-", "0", "3">>, <<"1", "9", "9", "9", "-", "1", "2", "-", "3", "1">> }

-----------------------------------------------------------------------------
(* ReceiptParser.parse, step by step. *)

Init ==
    /\ rawText \in Texts
    /\ today \in ProcessingDates
    /\ pc = "start"
    /\ lines = <<>>
    /\ data = <<>>
    /\ idx = 0
    /\ calculatedTotal = Zero
    /\ calcExact = TRUE
    /\ detectedTotal = Zero
    /\ priceStr = <<>>
    /\ priceOut = NoResult
    /\ NoCategorizerCall
    /\ FreshSession

\* const lines = ...; const data = {...}
Start ==
    /\ pc = "start"
    /\ lines' = SplitLines(rawText)
    /\ data' = InitialData(today)
    /\ pc' = "merchant"
    /\ UNCHANGED <<rawText, today, idx, calculatedTotal, calcExact,
                   detectedTotal, priceVars, categorizerVars, sessionVars, fpMemo>>

\* Priority 1: Search for known keywords in the entire text
DetectMerchant ==
    /\ pc = "merchant"
    /\ data' = [data EXCEPT !.merchant = KnownMerchant(lines, @)]
    /\ pc' = "fallback"
    /\ UNCHANGED <<rawText, today, lines, idx, calculatedTotal, calcExact,
                   detectedTotal, priceVars, categorizerVars, sessionVars, fpMemo>>

\* Priority 2: Fallback to first line scanning if still unknown
ScanFirstLines ==
    /\ pc = "fallback"
    /\ data' = [data EXCEPT !.merchant = FallbackMerchant(lines, @)]
    /\ pc' = "date"
    /\ UNCHANGED <<rawText, today, lines, idx, calculatedTotal, calcExact,
                   detectedTotal, priceVars, categorizerVars, sessionVars, fpMemo>>

\* 2. Date Detection
DetectDate ==
    /\ pc = "date"
    /\ data' = [data EXCEPT !.date = DetectedDate(lines, @)]
    /\ idx' = 1
    /\ calculatedTotal' = Zero
    /\ calcExact' = TRUE
    /\ pc' = IF lines = <<>> THEN "total" ELSE "items"
    /\ UNCHANGED <<rawText, today, lines, detectedTotal, priceVars,
                   categorizerVars, sessionVars, fpMemo>>

\* 3. Item Extraction: one turn of the loop, on lines[idx].  Reading
\* allPriceMatches[priceIdx][0] throws a TypeError when there is no such
\* match.
ExtractItem ==
    /\ pc = "items"
    /\ LET line == lines[idx]
           matches == allPriceMatches(line)
           next == IF idx = Len(lines) THEN "total" ELSE "items"
       IN  IF SkipsLine(line) \/ ~HasPriceMatches(matches)
           THEN /\ pc' = next
                /\ UNCHANGED <<data, calculatedTotal, calcExact>>
           ELSE IF PriceIdx(matches) \notin DOMAIN matches
           THEN /\ pc' = "thrown"
                /\ UNCHANGED <<data, calculatedTotal, calcExact>>
           ELSE LET price == parsePrice(matches[PriceIdx(matches)].text)
                    description == Description(line, matches)
                    amountForTotal ==
                        parsePrice(matches[AmountIdx(matches)].text)
                IN  /\ pc' = next
                    /\ IF AcceptsItem(line, description, price)
                       THEN /\ data' = [data EXCEPT !.items =
                                   push(@, NewItem(description, price))]
                            /\ calculatedTotal' =
                                   NumAdd(calculatedTotal, amountForTotal)
                            /\ calcExact' =
                                   (calcExact /\ IsExactDouble(amountForTotal))
                       ELSE UNCHANGED <<data, calculatedTotal, calcExact>>
    /\ idx' = idx + 1
    /\ UNCHANGED <<rawText, today, lines, detectedTotal, priceVars,
                   categorizerVars, sessionVars, fpMemo>>

\* 4. Total Detection
DetectTotal ==
    /\ pc = "total"
    /\ detectedTotal' = DetectedTotal(lines, Zero)
    /\ pc' = "reconcile"
    /\ UNCHANGED <<rawText, today, lines, data, idx, calculatedTotal,
                   calcExact, priceVars, categorizerVars, sessionVars, fpMemo>>

\* data.total = detectedTotal; if (...) data.total = Math.max(...)
Reconcile ==
    /\ pc = "reconcile"
    /\ LET gt == ExceedsThreshold(detectedTotal, calculatedTotal, calcExact)
           fx == ToFixed2(calculatedTotal, calcExact)
       IN  \E exceeds \in Evaluated(fpMemo, <<">", lines>>, gt) :
           \E rounded \in Evaluated(fpMemo, <<"toFixed", lines>>, fx) :
              /\ data' = [data EXCEPT !.total =
                             Reconciled(detectedTotal, calculatedTotal,
                                        exceeds, rounded)]
              /\ fpMemo' = Remember(Remember(fpMemo, <<">", lines>>, gt,
                                             exceeds),
                                    <<"toFixed", lines>>, fx, rounded)
    /\ pc' = "sanity"
    /\ UNCHANGED <<rawText, today, lines, idx, calculatedTotal, calcExact,
                   detectedTotal, priceVars, categorizerVars, sessionVars>>

\* Final sanity check, and return data.
Return ==
    /\ pc = "sanity"
    /\ data' = [data EXCEPT !.total = SanityChecked(@, data.items)]
    /\ pc' = "done"
    /\ UNCHANGED <<rawText, today, lines, idx, calculatedTotal, calcExact,
                   detectedTotal, priceVars, categorizerVars, sessionVars, fpMemo>>

Next ==
    \/ Start
    \/ DetectMerchant
    \/ ScanFirstLines
    \/ DetectDate
    \/ ExtractItem
    \/ DetectTotal
    \/ Reconcile
    \/ Return

\* The caller, holding the record that a call returned, calls parse again:
\* on any instance, with any text, on any day.  The locals of the call are
\* new; the record returned is still the last one until the call makes
\* its own.
CallAgain ==
    /\ pc = "done"
    /\ calls + 1 < MaxCalls
    /\ returned' = returned \cup
           {[text |-> rawText, date |-> today, parser |-> parser,
             data |-> data]}
    /\ calls' = calls + 1
    /\ rawText' \in SessionTexts
    /\ today' \in ProcessingDates
    /\ parser' \in Parsers
    /\ pc' = "start"
    /\ lines' = <<>>
    /\ idx' = 0
    /\ calculatedTotal' = Zero
    /\ calcExact' = TRUE
    /\ detectedTotal' = Zero
    /\ UNCHANGED <<data, fields, fpMemo, priceVars, categorizerVars>>

SessionInit == Init /\ rawText \in SessionTexts

SessionNext == Next \/ CallAgain

SessionSpec == SessionInit /\ [][SessionNext]_vars

Spec == Init /\ [][Next]_vars


-----------------------------------------------------------------------------
(* Categorizer (js/categorizer.js). *)

\* The lowercase letter of each uppercase letter.
LowerOf ==
    [c \in {UpperChars[i] : i \in 1..Len(UpperChars)} |->
        LowerChars[CHOOSE i \in 1..Len(UpperChars) : UpperChars[i] = c]]

ToLowerChar(c) == IF c \in DOMAIN LowerOf THEN LowerOf[c] ELSE c

\* s.toLowerCase()
toLowerCase(s) == [i \in 1..Len(s) |-> ToLowerChar(s[i])]

\* The characters of the model in the order of their UTF-16 code units.
CodeUnitOrder ==
    <<"\t", "\n", "\r", " ", "%", ",", "-", ".", "/",
      "0", "1", "2", "3", "4", "5", "6", "7", "8", "9", ":",
      "A", "B", "C", "D", "E", "F", "G", "H", "I", "J", "K", "L", "M",
      "N", "O", "P", "Q", "R", "S", "T", "U", "V", "W", "X", "Y", "Z", "_",
      "a", "b", "c", "d", "e", "f", "g", "h", "i", "j", "k", "l", "m",
      "n", "o", "p", "q", "r", "s", "t", "u", "v", "w", "x", "y", "z",
      "Á", "É", "Í", "Ñ", "Ó", "Ú", "ß", "á", "é", "í", "ñ", "ó", "ú">>

CodeUnit(c) == CHOOSE i \in 1..Len(CodeUnitOrder) : CodeUnitOrder[i] = c

\* a < b for two strings, as Array.prototype.sort compares them by default.
StringBefore(a, b) ==
    \E i \in 1..(Len(a) + 1) :
        /\ i <= Len(b)
        /\ \A j \in 1..(i - 1) : a[j] = b[j]
        /\ (i = Len(a) + 1 \/ CodeUnit(a[i]) < CodeUnit(b[i]))

\* this.categories, in the order of its keys.
categories ==
   <<
      [name |-> <<"C", "a", "r", "n", "e", "s">>,
       keywords |-> <<
            <<"p", "o", "l", "l", "o">>,
            <<"p", "a", "v", "o">>,
            <<"t", "e", "r", "n", "e", "r", "a">>,
            <<"c", "e", "r", "d", "o">>,
            <<"l", "o", "m", "o">>,
            <<"s", "o", "l", "o", "m", "i", "l", "l", "o">>,
            <<"b", "u", "r", "g", "u", "e", "r">>,
            <<"h", "a", "m", "b", "u", "r", "g", "u", "e", "s", "a">>,
            <<"j", "a", "m", "ó", "n">>,
            <<"l", "o", "n", "g", "a", "n", "i", "z", "a">>,
            <<"s", "a", "l", "c", "h", "i", "c", "h", "a">>,
            <<"m", "o", "r", "c", "i", "l", "l", "a">>,
            <<"c", "h", "o", "r", "i", "z", "o">>,
            <<"b", "a", "c", "o", "n">>,
            <<"p", "a", "n", "c", "e", "t", "a">>,
            <<"c", "o", "s", "t", "i", "l", "l", "a">>,
            <<"c", "h", "u", "l", "e", "t", "a">>,
            <<"f", "i", "l", "e", "t", "e">>,
            <<"b", "i", "s", "t", "e", "c">>,
            <<"e", "n", "t", "r", "e", "c", "o", "t">>,
            <<"m", "u", "s", "l", "o">>,
            <<"p", "e", "c", "h", "u", "g", "a">>,
            <<"a", "l", "a", "s">>,
            <<"c", "a", "r", "n", "e">>,
            <<"a", "l", "b", "ó", "n", "d", "i", "g", "a", "s">>,
            <<"s", "o", "b", "r", "a", "s", "a", "d", "a">> >>],
      [name |-> <<"P", "e", "s", "c", "a", "d", "o", " ", "y", " ", "M", "a", "r", "i", "s", "c", "o">>,
       keywords |-> <<
            <<"p", "e", "s", "c", "a", "d", "o">>,
            <<"m", "e", "r", "l", "u", "z", "a">>,
            <<"s", "a", "l", "m", "ó", "n">>,
            <<"b", "a", "c", "a", "l", "a", "o">>,
            <<"a", "t", "ú", "n">>,
            <<"s", "a", "r", "d", "i", "n", "a">>,
            <<"b", "o", "q", "u", "e", "r", "ó", "n">>,
            <<"c", "a", "l", "a", "m", "a", "r">>,
            <<"s", "e", "p", "i", "a">>,
            <<"p", "u", "l", "p", "o">>,
            <<"g", "a", "m", "b", "a">>,
            <<"l", "a", "n", "g", "o", "s", "t", "i", "n", "o">>,
            <<"m", "e", "j", "i", "l", "l", "ó", "n">>,
            <<"a", "l", "m", "e", "j", "a">>,
            <<"r", "o", "d", "a", "j", "a">>,
            <<"d", "o", "r", "a", "d", "a">>,
            <<"l", "u", "b", "i", "n", "a">>,
            <<"t", "r", "u", "c", "h", "a">>,
            <<"p", "e", "r", "c", "a">>,
            <<"r", "a", "p", "e">>,
            <<"b", "o", "n", "i", "t", "o">>,
            <<"a", "n", "c", "h", "o", "a">> >>],
      [name |-> <<"L", "á", "c", "t", "e", "o", "s">>,
       keywords |-> <<
            <<"l", "e", "c", "h", "e">>,
            <<"y", "o", "g", "u", "r">>,
            <<"q", "u", "e", "s", "o">>,
            <<"m", "a", "n", "t", "e", "q", "u", "i", "l", "l", "a">>,
            <<"n", "a", "t", "a">>,
            <<"p", "o", "s", "t", "r", "e">>,
            <<"k", "e", "f", "i", "r">>,
            <<"a", "c", "t", "i", "m", "e", "l">>,
            <<"m", "a", "r", "g", "a", "r", "i", "n", "a">>,
            <<"f", "l", "a", "n">>,
            <<"n", "a", "t", "i", "l", "l", "a", "s">>,
            <<"c", "u", "a", "j", "a", "d", "a">>,
            <<"b", "a", "t", "i", "d", "o">>,
            <<"r", "e", "q", "u", "e", "s", "ó", "n">>,
            <<"m", "a", "s", "c", "a", "r", "p", "o", "n", "e">>,
            <<"m", "o", "z", "z", "a", "r", "e", "l", "l", "a">> >>],
      [name |-> <<"F", "r", "u", "t", "a", "s", " ", "y", " ", "V", "e", "r", "d", "u", "r", "a", "s">>,
       keywords |-> <<
            <<"m", "a", "n", "z", "a", "n", "a">>,
            <<"p", "e", "r", "a">>,
            <<"p", "l", "á", "t", "a", "n", "o">>,
            <<"b", "a", "n", "a", "n", "a">>,
            <<"n", "a", "r", "a", "n", "j", "a">>,
            <<"l", "i", "m", "ó", "n">>,
            <<"p", "a", "t", "a", "t", "a">>,
            <<"c", "e", "b", "o", "l", "l", "a">>,
            <<"z", "a", "n", "a", "h", "o", "r", "i", "a">>,
            <<"t", "o", "m", "a", "t", "e">>,
            <<"l", "e", "c", "h", "u", "g", "a">>,
            <<"e", "n", "s", "a", "l", "a", "d", "a">>,
            <<"a", "g", "u", "a", "c", "a", "t", "e">>,
            <<"p", "i", "m", "e", "n", "t", "o">>,
            <<"p", "i", "m", "i", "e", "n", "t", "o">>,
            <<"a", "j", "o">>,
            <<"c", "a", "l", "a", "b", "a", "c", "í", "n">>,
            <<"b", "e", "r", "e", "n", "j", "e", "n", "a">>,
            <<"p", "e", "p", "i", "n", "o">>,
            <<"u", "v", "a">>,
            <<"m", "e", "l", "ó", "n">>,
            <<"s", "a", "n", "d", "í", "a">>,
            <<"f", "r", "e", "s", "a">>,
            <<"c", "e", "r", "e", "z", "a">>,
            <<"m", "a", "n", "d", "a", "r", "i", "n", "a">>,
            <<"p", "o", "m", "e", "l", "o">>,
            <<"l", "i", "m", "a">>,
            <<"c", "o", "c", "o">>,
            <<"p", "i", "ñ", "a">>,
            <<"k", "i", "w", "i">>,
            <<"e", "s", "p", "i", "n", "a", "c", "a">>,
            <<"a", "c", "e", "l", "g", "a">>,
            <<"r", "e", "p", "o", "l", "l", "o">>,
            <<"c", "o", "l", "i", "f", "l", "o", "r">>,
            <<"b", "r", "ó", "c", "o", "l", "i">>,
            <<"j", "u", "d", "í", "a">>,
            <<"g", "u", "i", "s", "a", "n", "t", "e">>,
            <<"h", "a", "b", "a">>,
            <<"m", "a", "í", "z">>,
            <<"c", "h", "a", "m", "p", "i", "ñ", "ó", "n">>,
            <<"s", "e", "t", "a">>,
            <<"v", "e", "r", "d", "u", "r", "a">>,
            <<"f", "r", "u", "t", "a">> >>],
      [name |-> <<"P", "a", "n", "a", "d", "e", "r", "í", "a">>,
       keywords |-> <<
            <<"p", "a", "n">>,
            <<"b", "a", "r", "r", "a">>,
            <<"h", "o", "g", "a", "z", "a">>,
            <<"c", "r", "o", "i", "s", "s", "a", "n", "t">>,
            <<"b", "o", "l", "l", "o">>,
            <<"t", "o", "s", "t", "a", "d", "a">>,
            <<"h", "a", "r", "i", "n", "a">>,
            <<"l", "e", "v", "a", "d", "u", "r", "a">>,
            <<"b", "a", "g", "u", "e", "t", "t", "e">>,
            <<"m", "o", "l", "d", "e">>,
            <<"c", "h", "a", "p", "a", "t", "a">>,
            <<"m", "a", "g", "d", "a", "l", "e", "n", "a">>,
            <<"b", "i", "z", "c", "o", "c", "h", "o">>,
            <<"d", "o", "n", "u", "t">>,
            <<"r", "o", "s", "q", "u", "i", "l", "l", "a">>,
            <<"e", "n", "s", "a", "i", "m", "a", "d", "a">>,
            <<"t", "a", "r", "t", "a">>,
            <<"p", "a", "s", "t", "e", "l">> >>],
      [name |-> <<"B", "e", "b", "i", "d", "a", "s">>,
       keywords |-> <<
            <<"a", "g", "u", "a">>,
            <<"r", "e", "f", "r", "e", "s", "c", "o">>,
            <<"c", "o", "c", "a">>,
            <<"f", "a", "n", "t", "a">>,
            <<"p", "e", "p", "s", "i">>,
            <<"c", "e", "r", "v", "e", "z", "a">>,
            <<"v", "i", "n", "o">>,
            <<"z", "u", "m", "o">>,
            <<"n", "é", "c", "t", "a", "r">>,
            <<"l", "i", "c", "o", "r">>,
            <<"s", "o", "d", "a">>,
            <<"k", "a", "s">>,
            <<"s", "e", "v", "e", "n">>,
            <<"s", "p", "r", "i", "t", "e">>,
            <<"t", "ó", "n", "i", "c", "a">>,
            <<"a", "l", "c", "o", "h", "o", "l">>,
            <<"g", "i", "n", "e", "b", "r", "a">>,
            <<"r", "o", "n">>,
            <<"w", "h", "i", "s", "k", "y">>,
            <<"v", "o", "d", "k", "a">>,
            <<"t", "e", "q", "u", "i", "l", "a">>,
            <<"b", "r", "a", "n", "d", "y">>,
            <<"c", "o", "ñ", "a", "c">>,
            <<"a", "n", "í", "s">>,
            <<"s", "i", "d", "r", "a">>,
            <<"c", "a", "v", "a">>,
            <<"c", "h", "a", "m", "p", "á", "n">> >>],
      [name |-> <<"L", "i", "m", "p", "i", "e", "z", "a", " ", "y", " ", "H", "o", "g", "a", "r">>,
       keywords |-> <<
            <<"d", "e", "t", "e", "r", "g", "e", "n", "t", "e">>,
            <<"s", "u", "a", "v", "i", "z", "a", "n", "t", "e">>,
            <<"l", "a", "v", "a", "v", "a", "j", "i", "l", "l", "a", "s">>,
            <<"f", "r", "e", "g", "a", "s", "u", "e", "l", "o", "s">>,
            <<"l", "e", "j", "í", "a">>,
            <<"a", "m", "o", "n", "i", "a", "c", "o">>,
            <<"l", "i", "m", "p", "i", "a", "c", "r", "i", "s", "t", "a", "l", "e", "s">>,
            <<"q", "u", "i", "t", "a", "g", "r", "a", "s", "a", "s">>,
            <<"a", "m", "b", "i", "e", "n", "t", "a", "d", "o", "r">>,
            <<"e", "s", "t", "r", "o", "p", "a", "j", "o">>,
            <<"b", "a", "y", "e", "t", "a">>,
            <<"f", "r", "e", "g", "o", "n", "a">>,
            <<"e", "s", "c", "o", "b", "a">>,
            <<"r", "e", "c", "o", "g", "e", "d", "o", "r">>,
            <<"c", "u", "b", "o">>,
            <<"b", "a", "s", "u", "r", "a">>,
            <<"b", "o", "l", "s", "a">>,
            <<"p", "a", "p", "e", "l">>,
            <<"s", "e", "r", "v", "i", "l", "l", "e", "t", "a">>,
            <<"r", "o", "l", "l", "o">>,
            <<"a", "l", "u", "m", "i", "n", "i", "o">>,
            <<"f", "i", "l", "m">>,
            <<"b", "a", "t", "e", "r", "í", "a">>,
            <<"p", "i", "l", "a">>,
            <<"b", "o", "m", "b", "i", "l", "l", "a">> >>],
      [name |-> <<"H", "i", "g", "i", "e", "n", "e">>,
       keywords |-> <<
            <<"c", "h", "a", "m", "p", "ú">>,
            <<"g", "e", "l">>,
            <<"j", "a", "b", "ó", "n">>,
            <<"d", "e", "s", "o", "d", "o", "r", "a", "n", "t", "e">>,
            <<"p", "a", "s", "t", "a">>,
            <<"c", "e", "p", "i", "l", "l", "o">>,
            <<"c", "r", "e", "m", "a">>,
            <<"c", "o", "l", "o", "n", "i", "a">>,
            <<"p", "e", "r", "f", "u", "m", "e">>,
            <<"c", "o", "m", "p", "r", "e", "s", "a">>,
            <<"t", "a", "m", "p", "ó", "n">>,
            <<"p", "r", "o", "t", "e", "g", "e", "s", "l", "i", "p">>,
            <<"p", "a", "ñ", "a", "l">>,
            <<"t", "o", "a", "l", "l", "i", "t", "a">>,
            <<"p", "a", "p", "e", "l", " ", "h", "i", "g", "i", "e", "n", "i", "c", "o">>,
            <<"a", "c", "o", "n", "d", "i", "c", "i", "o", "n", "a", "d", "o", "r">>,
            <<"m", "a", "s", "c", "a", "r", "i", "l", "l", "a">>,
            <<"l", "o", "c", "i", "ó", "n">>,
            <<"a", "c", "e", "i", "t", "e">>,
            <<"a", "f", "e", "i", "t", "a", "d", "o">>,
            <<"c", "u", "c", "h", "i", "l", "l", "a">> >>],
      [name |-> <<"C", "o", "n", "g", "e", "l", "a", "d", "o", "s">>,
       keywords |-> <<
            <<"c", "o", "n", "g", "e", "l", "a", "d", "o">>,
            <<"h", "e", "l", "a", "d", "o">>,
            <<"p", "i", "z", "z", "a">>,
            <<"n", "u", "g", "g", "e", "t", "s">>,
            <<"c", "r", "o", "q", "u", "e", "t", "a", "s">>,
            <<"e", "m", "p", "a", "n", "a", "d", "i", "l", "l", "a">> >>],
      [name |-> <<"S", "n", "a", "c", "k", "s">>,
       keywords |-> <<
            <<"p", "a", "t", "a", "t", "a", "s", " ", "f", "r", "i", "t", "a", "s">>,
            <<"c", "h", "i", "p", "s">>,
            <<"c", "h", "o", "c", "o", "l", "a", "t", "e">>,
            <<"b", "o", "m", "b", "ó", "n">>,
            <<"g", "a", "l", "l", "e", "t", "a">>,
            <<"t", "u", "r", "r", "ó", "n">>,
            <<"c", "a", "r", "a", "m", "e", "l", "o">>,
            <<"c", "h", "i", "c", "l", "e">>,
            <<"d", "o", "r", "i", "t", "o", "s">>,
            <<"n", "a", "c", "h", "o", "s">>,
            <<"p", "i", "p", "a", "s">>,
            <<"k", "i", "k", "o", "s">>,
            <<"f", "r", "u", "t", "o", "s", " ", "s", "e", "c", "o", "s">>,
            <<"p", "i", "s", "t", "a", "c", "h", "o">>,
            <<"a", "l", "m", "e", "n", "d", "r", "a">>,
            <<"n", "u", "e", "z">>,
            <<"a", "v", "e", "l", "l", "a", "n", "a">>,
            <<"g", "o", "m", "i", "n", "o", "l", "a">>,
            <<"p", "a", "s", "t", "i", "c", "c", "e", "r", "i", "a">> >>],
      [name |-> <<"D", "e", "s", "p", "e", "n", "s", "a">>,
       keywords |-> <<
            <<"a", "r", "r", "o", "z">>,
            <<"p", "a", "s", "t", "a">>,
            <<"m", "a", "c", "a", "r", "r", "o", "n", "e", "s">>,
            <<"e", "s", "p", "a", "g", "u", "e", "t", "i">>,
            <<"f", "i", "d", "e", "o">>,
            <<"t", "a", "l", "l", "a", "r", "í", "n">>,
            <<"l", "e", "g", "u", "m", "b", "r", "e">>,
            <<"l", "e", "n", "t", "e", "j", "a">>,
            <<"g", "a", "r", "b", "a", "n", "z", "o">>,
            <<"a", "c", "e", "i", "t", "e">>,
            <<"v", "i", "n", "a", "g", "r", "e">>,
            <<"s", "a", "l">>,
            <<"a", "z", "ú", "c", "a", "r">>,
            <<"h", "u", "e", "v", "o">>,
            <<"a", "t", "ú", "n">>,
            <<"s", "a", "l", "s", "a">>,
            <<"t", "o", "m", "a", "t", "e", " ", "f", "r", "i", "t", "o">>,
            <<"m", "a", "y", "o", "n", "e", "s", "a">>,
            <<"k", "e", "t", "c", "h", "u", "p">>,
            <<"m", "o", "s", "t", "a", "z", "a">>,
            <<"e", "s", "p", "e", "c", "i", "a", "s">>,
            <<"p", "i", "m", "i", "e", "n", "t", "a">>,
            <<"o", "r", "é", "g", "a", "n", "o">>,
            <<"p", "i", "m", "e", "n", "t", "ó", "n">>,
            <<"c", "a", "n", "e", "l", "a">>,
            <<"c", "a", "f", "é">>,
            <<"t", "é">>,
            <<"i", "n", "f", "u", "s", "i", "ó", "n">>,
            <<"c", "a", "c", "a", "o">>,
            <<"m", "e", "r", "m", "e", "l", "a", "d", "a">>,
            <<"m", "i", "e", "l">>,
            <<"c", "e", "r", "e", "a", "l", "e", "s">>,
            <<"g", "a", "l", "l", "e", "t", "a", "s">> >>],
      [name |-> <<"M", "a", "s", "c", "o", "t", "a", "s">>,
       keywords |-> <<
            <<"p", "e", "r", "r", "o">>,
            <<"g", "a", "t", "o">>,
            <<"p", "i", "e", "n", "s", "o">>,
            <<"a", "r", "e", "n", "a">>,
            <<"c", "o", "l", "l", "a", "r">>,
            <<"c", "o", "r", "r", "e", "a">>,
            <<"j", "u", "g", "u", "e", "t", "e">> >>] >>

\* Object.keys(this.categories)
CategoryKeys == [i \in 1..Len(categories) |-> categories[i].name]

\* keys.sort() of a list of distinct strings.
sort(keys) ==
    [i \in 1..Len(keys) |->
        keys[CHOOSE k \in 1..Len(keys) :
                Cardinality({j \in 1..Len(keys) :
                                StringBefore(keys[j], keys[k])}) = i - 1]]

\* A description given to categorize: a string, or undefined or null.
NoDescription == [k |-> "undefined", s |-> <<>>]

IsFalsy(description) == description.k # "string" \/ description.s = <<>>

\* keywords.some(keyword => lowerDesc.includes(keyword))
SomeKeyword(keywords, lowerDesc) ==
    \E i \in 1..Len(keywords) : includes(lowerDesc, keywords[i])

\* A slip: a description without a keyword gets the first category.
categorizeFirstByDefault(description) ==
    IF IsFalsy(description) THEN DefaultCategory
    ELSE LET lowerDesc == toLowerCase(description.s)
             hits == {i \in 1..Len(categories) :
                         SomeKeyword(categories[i].keywords, lowerDesc)}
         IN  IF includes(lowerDesc, <<"p", "a", "p", "e", "l", " ", "h", "i", "g", "i", "e", "n", "i", "c", "o">>)
             THEN <<"H", "i", "g", "i", "e", "n", "e">>
             ELSE IF includes(lowerDesc, <<"p", "a", "p", "e", "l", " ", "c", "o", "c", "i", "n", "a">>)
             THEN <<"L", "i", "m", "p", "i", "e", "z", "a", " ", "y", " ", "H", "o", "g", "a", "r">>
             ELSE IF hits # {}
             THEN categories[CHOOSE i \in hits : \A j \in hits : i <= j].name
             ELSE categories[1].name

\* Categorizer.categorize
categorize(description) ==
    IF IsFalsy(description) THEN DefaultCategory
    ELSE LET lowerDesc == toLowerCase(description.s)
             hits == {i \in 1..Len(categories) :
                         SomeKeyword(categories[i].keywords, lowerDesc)}
         IN  IF includes(lowerDesc, <<"p", "a", "p", "e", "l", " ", "h", "i", "g", "i", "e", "n", "i", "c", "o">>)
             THEN <<"H", "i", "g", "i", "e", "n", "e">>
             ELSE IF includes(lowerDesc, <<"p", "a", "p", "e", "l", " ", "c", "o", "c", "i", "n", "a">>)
             THEN <<"L", "i", "m", "p", "i", "e", "z", "a", " ", "y", " ", "H", "o", "g", "a", "r">>
             ELSE IF hits # {}
             THEN categories[CHOOSE i \in hits : \A j \in hits : i <= j].name
             ELSE DefaultCategory

\* Categorizer.getCategories
getCategories == sort(CategoryKeys) \o <<DefaultCategory>>

\* The words of the descriptions given to categorize.
DescriptionWords ==
    { <<"P", "A", "N">>, <<"P", "a", "p", "e", "l", " ", "H", "i", "g", "i", "e", "n", "i", "c", "o">>, <<"p", "a", "p", "e", "l", " ", "c", "o", "c", "i", "n", "a">>, <<"A", "t", "ú", "n">>, <<"P", "A", "S", "T", "A">>,
      <<"X", "Y", "Z">>, <<"L", "e", "c", "h", "e">>, <<"7">>, <<"T", "É">>, <<"P", "a", "p", "e", "l">> }

\* The descriptions: none, the empty one, and up to MaxWords words.
Descriptions ==
    { [k |-> "undefined", s |-> <<>>], [k |-> "null", s |-> <<>>] }
    \cup { [k |-> "string", s |-> join(ws, <<" ">>)] :
             ws \in UNION { [1..n -> DescriptionWords] : n \in 0..MaxWords } }

CategorizerInit ==
    /\ descArg \in Descriptions
    /\ labelOut = <<>>
    /\ categoriesOut = <<>>
    /\ priceStr = <<>>
    /\ priceOut = NoResult
    /\ rawText = <<>>
    /\ today = <<>>
    /\ pc = "idle"
    /\ lines = <<>>
    /\ data = <<>>
    /\ idx = 0
    /\ calculatedTotal = Zero
    /\ calcExact = TRUE
    /\ detectedTotal = Zero
    /\ FreshSession

CallCategorize ==
    /\ labelOut = <<>>
    /\ labelOut' = <<categorize(descArg)>>
    /\ UNCHANGED <<descArg, categoriesOut, parseVars, priceVars, sessionVars,
                   fpMemo>>

CallGetCategories ==
    /\ categoriesOut = <<>>
    /\ categoriesOut' = <<getCategories>>
    /\ UNCHANGED <<descArg, labelOut, parseVars, priceVars, sessionVars,
                   fpMemo>>

CategorizerNext == CallCategorize \/ CallGetCategories

CategorizerSpec == CategorizerInit /\ [][CategorizerNext]_vars

-----------------------------------------------------------------------------
(* Properties of parsePrice, checked under PriceSpec. *)

Returned == priceOut # NoResult

\* The separators of s, and whether s is made of digits and separators.
CountOf(s, c) == Cardinality({i \in 1..Len(s) : s[i] = c})

DigitsOf(s) == SelectSeq(s, IsDigit)

\* The decimal whose integer part is written by the digits of whole and
\* whose fraction by the digits of frac.
Decimal(whole, frac) ==
    Num(DigitsValue(StripLeadingZeros(DigitsOf(whole)) \o DigitsOf(frac)),
        Len(DigitsOf(frac)))

\* The digit each OCR letter is documented to stand for.
DocumentedReading ==
    [c \in {"O", "o", "I", "l", "|", "S", "s", "B", "G", "Z"} |->
        CASE c \in {"O", "o"} -> "0"
          [] c \in {"I", "l", "|"} -> "1"
          [] c \in {"S", "s"} -> "5"
          [] c = "B" -> "8"
          [] c = "G" -> "6"
          [] OTHER -> "2"]

ReadAsDocumented(s) ==
    [i \in 1..Len(s) |->
        IF s[i] \in DOMAIN DocumentedReading THEN DocumentedReading[s[i]]
        ELSE s[i]]

\* A token of digits and OCR letters with one comma and no other character.
IsSingleCommaToken(s) ==
    /\ CountOf(s, ",") = 1
    /\ \A i \in 1..Len(s) :
          s[i] = "," \/ IsDigit(s[i]) \/ s[i] \in DOMAIN DocumentedReading

\* C7: parsePrice maps "1,25" to 1.25, "1.200,50" and "1,200.50" to 1200.50
\* and "12,5O" to 12.50; a token of digits and OCR letters whose only
\* separator is one comma is read with the comma as the decimal point and
\* with O/o, I/l/|, S/s, B, G, Z read as 0, 1, 5, 8, 6, 2.
C7_PriceNormalization ==
    Returned =>
       /\ priceStr = <<"1", ",", "2", "5">> => priceOut = Num(125, 2)
       /\ priceStr = <<"1", ".", "2", "0", "0", ",", "5", "0">> => priceOut = Num(120050, 2)
       /\ priceStr = <<"1", ",", "2", "0", "0", ".", "5", "0">> => priceOut = Num(120050, 2)
       /\ priceStr = <<"1", "2", ",", "5", "O">> => priceOut = Num(1250, 2)
       /\ IsSingleCommaToken(priceStr) =>
             LET r == ReadAsDocumented(priceStr)
                 p == lastIndexOf(r, ",")
             IN  priceOut = Decimal(Sub(r, 1, p - 1), Sub(r, p + 1, Len(r)))

\* C7 witness: parsePrice has returned 8.61 for the token "B,Gl", all of
\* whose digits are OCR letters.
C7_Witness ==
    Returned /\ priceStr = <<"B", ",", "G", "l">> /\ priceOut = Num(861, 2)

\* C8: for every string of digits and separators that holds both ',' and
\* '.', the rightmost separator is the decimal point and every other
\* separator is dropped: the result is the number whose integer part is
\* all the digits left of the rightmost separator and whose fraction is
\* the digits right of it.
C8_RightmostSeparatorIsDecimalPoint ==
    ( /\ Returned
      /\ CountOf(priceStr, ",") > 0
      /\ CountOf(priceStr, ".") > 0
      /\ \A i \in 1..Len(priceStr) :
            IsDigit(priceStr[i]) \/ priceStr[i] \in PriceSeparators )
    => LET a == lastIndexOf(priceStr, ",")
           b == lastIndexOf(priceStr, ".")
           p == IF a > b THEN a ELSE b
       IN  priceOut = Decimal(Sub(priceStr, 1, p - 1),
                              Sub(priceStr, p + 1, Len(priceStr)))

\* C9: whatever the string, parsePrice returns a finite number that is at
\* least 0, and 0 when the text left after normalization holds no digit.
C9_FiniteNonNegative ==
    Returned =>
       /\ IsFinite(priceOut)
       /\ priceOut.m >= 0
       /\ DigitsOf(OcrFix(priceStr)) = <<>> => priceOut = Zero

-----------------------------------------------------------------------------
(* Properties of parse, checked under Spec. *)

IsString(s) == s \in Seq(STRING)

\* A record with the four fields: two strings, a number, a sequence.
IsReceiptDraft(d) ==
    /\ DOMAIN d = {"merchant", "date", "total", "items"}
    /\ IsString(d.merchant)
    /\ IsString(d.date)
    /\ d.total.k \in {"num", "inf"}
    /\ DOMAIN d.items = 1..Len(d.items)

\* The steps that a call at this position has yet to take, at most.
StepsToReturn ==
    CASE pc = "start" -> Len(rawText) + 9
      [] pc = "merchant" -> Len(lines) + 7
      [] pc = "fallback" -> Len(lines) + 6
      [] pc = "date" -> Len(lines) + 5
      [] pc = "items" -> Len(lines) - idx + 4
      [] pc = "total" -> 3
      [] pc = "reconcile" -> 2
      [] pc = "sanity" -> 1
      [] OTHER -> 0

IsBlankText(text) == \A i \in 1..Len(text) : text[i] \in WhiteSpace

\* C2: for the empty text, and for any text without a non-blank line,
\* parse returns the sentinel merchant, the processing date, total 0 and
\* no items.
C2_BlankTextGivesDefaults ==
    (pc = "done" /\ IsBlankText(rawText)) =>
        data = [merchant |-> Sentinel, date |-> today, total |-> Zero,
                items |-> <<>>]

\* C2 witness: parse("") has returned.
C2_Witness == pc = "done" /\ rawText = <<>> /\ data.date = today

\* The price token the item loop picks on a line: the only one, or the
\* second-to-last of several.
HasChosenPrice(line) == allPriceMatches(line) # <<>>

ChosenPrice(line) ==
    LET ms == allPriceMatches(line)
    IN  parsePrice(ms[IF Len(ms) >= 2 THEN Len(ms) - 1 ELSE 1].text)

IsZeroOrThousand(v) == v = Zero \/ v = Num(1000, 0)

\* C3: every item that parse holds has a price strictly between 0 and
\* 1000, and the turn of the item loop on a line whose chosen price token
\* is worth exactly 0 or exactly 1000 adds no item.
C3_ItemPricesInOpenRange ==
    /\ [](pc # "start" =>
            \A i \in 1..Len(data.items) :
               /\ NumGt(data.items[i].price, Zero)
               /\ NumLt(data.items[i].price, Num(1000, 0)))
    /\ [][(/\ pc = "items"
           /\ HasChosenPrice(lines[idx])
           /\ IsZeroOrThousand(ChosenPrice(lines[idx])))
          => data'.items = data.items]_vars

\* C3 witness: parse has returned one item for a text with another line
\* whose chosen price token is worth exactly 1000.
C3_Witness ==
    /\ pc = "done"
    /\ Len(data.items) = 1
    /\ \E k \in 1..Len(lines) :
          HasChosenPrice(lines[k]) /\ ChosenPrice(lines[k]) = Num(1000, 0)

\* C4: the total that parse returns is never negative, whether it is the
\* detected total, the calculated sum or the highest item price.
C4_TotalNeverNegative ==
    pc \in {"sanity", "done"} =>
        data.total.k # "nan" /\ ~NumLt(data.total, Zero)

\* C4 witness: parse has returned a total above 0 that is not the detected
\* total.
C4_Witness ==
    pc = "done" /\ NumGt(data.total, Zero) /\ data.total # detectedTotal

\* Four digits, '-', two digits, '-', two digits.
IsIsoDateShape(s) ==
    /\ Len(s) = 10
    /\ \A i \in {1, 2, 3, 4, 6, 7, 9, 10} : IsDigit(s[i])
    /\ s[5] = "-"
    /\ s[8] = "-"

\* C5: the date that parse holds always has the shape YYYY-MM-DD, when it
\* is the processing date and when it comes from a match of the date
\* pattern, whatever the numbers of digits of the groups.
C5_DateHasIsoShape == pc # "start" => IsIsoDateShape(data.date)

\* The names of the table of known merchants.
CanonicalNames == {establishments[n].name : n \in 1..Len(establishments)}

\* The lines that may serve as the merchant: among the first twelve,
\* longer than 3 characters in upper case, without two digits in a row and
\* without an
\* address word.
QualifyingLines(ls) ==
    {toUpperCase(ls[i]) : i \in {j \in 1..Len(ls) :
        /\ j <= 12
        /\ Len(toUpperCase(ls[j])) > 3
        /\ ~\E p \in 1..(Len(ls[j]) - 1) :
              IsDigit(ls[j][p]) /\ IsDigit(ls[j][p + 1])
        /\ \A w \in AddressWords : ~includes(toUpperCase(ls[j]), w)}}

\* C6: the merchant that parse holds is never the empty string: it is a
\* canonical name of the table, or a qualifying line in upper case, or the
\* sentinel.
C6_MerchantNeverEmpty ==
    pc # "start" =>
       /\ Len(data.merchant) > 0
       /\ \/ data.merchant \in CanonicalNames \cup {Sentinel}
          \/ data.merchant \in QualifyingLines(lines)

\* C6 witness: parse has returned a line of the text as the merchant.
C6_Witness ==
    /\ pc = "done"
    /\ data.merchant \notin CanonicalNames \cup {Sentinel}

\* The first line of ls, if any, that holds a match of the date pattern.
HasDateLine(ls) == \E i \in 1..Len(ls) : HasDateMatch(ls[i])

FirstDateLine(ls) ==
    ls[CHOOSE i \in 1..Len(ls) :
          HasDateMatch(ls[i]) /\ \A j \in 1..(i - 1) : ~HasDateMatch(ls[j])]

\* C10: the groups of the date are read as day, month, year, and day and
\* month change places exactly when the month group is above 12: 05/13/24
\* gives 2024-05-13 and 13/05/24 gives 2024-05-13.
C10_DayMonthSwap ==
    (pc = "done" /\ HasDateLine(lines)) =>
       LET g == DateMatch(FirstDateLine(lines))
           monthAndDay ==
               IF DigitsValue(g[2]) > 12
               THEN padStart2(g[1]) \o <<"-">> \o padStart2(g[2])
               ELSE padStart2(g[2]) \o <<"-">> \o padStart2(g[1])
       IN  /\ Sub(data.date, Len(data.date) - 4, Len(data.date)) = monthAndDay
           /\ FirstDateLine(lines) = <<"0", "5", "/", "1", "3", "/", "2", "4">>
                 => data.date = <<"2", "0", "2", "4", "-", "0", "5", "-", "1", "3">>
           /\ FirstDateLine(lines) = <<"1", "3", "/", "0", "5", "/", "2", "4">>
                 => data.date = <<"2", "0", "2", "4", "-", "0", "5", "-", "1", "3">>

\* C10 witness: parse has returned 2024-05-13 for a text whose date line is
\* 05/13/24.
C10_Witness ==
    /\ pc = "done"
    /\ HasDateLine(lines)
    /\ FirstDateLine(lines) = <<"0", "5", "/", "1", "3", "/", "2", "4">>
    /\ data.date = <<"2", "0", "2", "4", "-", "0", "5", "-", "1", "3">>

\* The letters of a text, in upper case, without the whitespace between.
LettersOf(s) == RemoveAll(toUpperCase(s), WhiteSpace)

\* Whether the text spells the name, in any case and with any whitespace
\* between consecutive letters.
SpelledIn(text, name) == includes(LettersOf(text), LettersOf(name))

\* Whether no entry of the table before the n-th matches the lines.
NoEarlierAlias(ls, n) ==
    \A m \in 1..(n - 1) :
        ~AliasMatches(establishments[m], toUpperCase(join(ls, <<" ">>)))

\* C11: a text that spells the name of an entry of the table, in any case
\* and with any whitespace between its letters, gets that name as its
\* merchant when no earlier entry of the table matches.
C11_AliasSpelledWithSpaces ==
    pc \notin {"start", "merchant"} =>
        \A n \in 1..Len(establishments) :
            (SpelledIn(rawText, establishments[n].name)
                /\ NoEarlierAlias(lines, n))
            => data.merchant = establishments[n].name

\* The names of the table in the order of their declaration.
DeclaredOrder ==
    << <<"M", "E", "R", "C", "A", "D", "O", "N", "A">>, <<"C", "A", "R", "R", "E", "F", "O", "U", "R">>, <<"L", "I", "D", "L">>, <<"A", "L", "D", "I">>, <<"A", "H", "O", "R", "R", "A", "M", "A", "S">>, <<"C", "O", "N", "S", "U", "M">>, <<"D", "I", "A">>,
       <<"E", "L", " ", "C", "O", "R", "T", "E", " ", "I", "N", "G", "L", "E", "S">>, <<"H", "I", "P", "E", "R", "C", "O", "R">>, <<"E", "R", "O", "S", "K", "I">> >>

\* The names of the entries one of whose patterns matches the lines.
MatchingNames(ls) ==
    {establishments[n].name : n \in {m \in 1..Len(establishments) :
        AliasMatches(establishments[m], toUpperCase(join(ls, <<" ">>)))}}

\* C12: when the patterns of two or more entries match the text, the
\* merchant is the one of the matching names that is declared first,
\* wherever the names stand in the text.
C12_FirstDeclaredAliasWins ==
    pc = "done" =>
        LET names == MatchingNames(lines)
        IN  Cardinality(names) >= 2 =>
               \E k \in 1..Len(DeclaredOrder) :
                  /\ data.merchant = DeclaredOrder[k]
                  /\ DeclaredOrder[k] \in names
                  /\ \A j \in 1..(k - 1) : DeclaredOrder[j] \notin names

\* C12 witness: parse has returned MERCADONA for a text whose first line
\* names LIDL and whose second names MERCADONA.
C12_Witness ==
    /\ pc = "done"
    /\ lines = << <<"L", "I", "D", "L">>, <<"m", "e", "r", "c", "a", "d", "o", "n", "a">> >>
    /\ data.merchant = <<"M", "E", "R", "C", "A", "D", "O", "N", "A">>

\* C14: with detected the value of the total line (0 when none) and calc
\* the sum of the line amounts of the accepted items, the total after the
\* reconciliation is the larger of detected and calc when detected is 0
\* or the two are more than 30 apart, and detected when they are 30 apart
\* or less; items summing to 45.00 with a line "TOTAL 12.00" give 45.00.
C14_Reconciliation ==
    pc = "sanity" =>
       /\ IF \/ detectedTotal = Zero
             \/ NumGt(NumAbsDiff(detectedTotal, calculatedTotal), Num(30, 0))
          THEN data.total = NumMax(detectedTotal, calculatedTotal)
          ELSE data.total = detectedTotal
       /\ (calculatedTotal = Num(45, 0) /\ detectedTotal = Num(12, 0))
             => data.total = Num(45, 0)

\* The receipt of the end-to-end example.
ExampleReceipt ==
    <<"M", "E", "R", "C", "A", "D", "O", "N", "A", " ", "S", ".", "A", ".", "\n", "0", "1", "/", "0", "2", "/", "2", "0", "2", "4", "\n", "2", " ", "P", "A", "N", " ", "0", ",", "5", "0", " ", "1", ",", "0", "0", "\n", "T", "O", "T", "A", "L", " ", "1", ",", "0", "0">>

\* C15: for the four lines "MERCADONA S.A.", "01/02/2024",
\* "2 PAN 0,50 1,00", "TOTAL 1,00" parse returns merchant MERCADONA, date
\* 2024-02-01, the one item PAN at 0.50 and total 1.00.
C15_EndToEnd ==
    (pc = "done" /\ rawText = ExampleReceipt) =>
       /\ data.merchant = <<"M", "E", "R", "C", "A", "D", "O", "N", "A">>
       /\ data.date = <<"2", "0", "2", "4", "-", "0", "2", "-", "0", "1">>
       /\ Len(data.items) = 1
       /\ data.items[1].description = <<"P", "A", "N">>
       /\ data.items[1].price = Num(50, 2)
       /\ data.total = Num(100, 2)

\* C15 witness: parse has returned for the example, with its four lines
\* read and one item kept.
C15_Witness ==
    /\ pc = "done"
    /\ rawText = ExampleReceipt
    /\ Len(lines) = 4
    /\ Len(data.items) = 1

\* The turn of the item loop that is taken adds an item.
AddsItem == pc = "items" /\ Len(data'.items) > Len(data.items)

\* The price tokens of a line, left to right.
PriceTokens(line) ==
    [k \in 1..Len(allPriceMatches(line)) |-> allPriceMatches(line)[k].text]

\* C17: the price of every item added is the value of the only price
\* token of its line when the line has one, and of the second-to-last
\* when it has two or more; a line without a price token adds no item.
C17_PriceTokenChoice ==
    /\ [][AddsItem =>
            LET toks == PriceTokens(lines[idx])
                n == Len(toks)
            IN  /\ n >= 1
                /\ data'.items[Len(data'.items)].price =
                      parsePrice(toks[IF n = 1 THEN 1 ELSE n - 1])]_vars
    /\ [][(pc = "items" /\ PriceTokens(lines[idx]) = <<>>)
            => data'.items = data.items]_vars

\* C17 witness: parse has returned the item KG at 2.00 for a line with the
\* three price tokens 1,50 2,00 3,00.
C17_Witness ==
    /\ pc = "done"
    /\ lines = << <<"2", " ", "K", "G", " ", "1", ",", "5", "0", " ", "2", ",", "0", "0", " ", "3", ",", "0", "0">> >>
    /\ Len(data.items) = 1
    /\ data.items[1].price = Num(2, 0)

\* The value of the last price token of a line.
LastTokenValue(line) ==
    parsePrice(PriceTokens(line)[Len(PriceTokens(line))])

\* C18: the calculated total starts at 0 and, on every turn of the item
\* loop, grows by the value of the last price token of the line when the
\* turn adds an item, whichever token gave the item's price, and stays as
\* it is when the turn adds none; nothing else changes it.
C18_CalculatedTotal ==
    /\ []((pc = "items" /\ idx = 1) => calculatedTotal = Zero)
    /\ [][IF AddsItem
          THEN calculatedTotal' =
                  NumAdd(calculatedTotal, LastTokenValue(lines[idx]))
          ELSE pc \in {"items", "total", "reconcile", "sanity"}
                  => calculatedTotal' = calculatedTotal]_vars

\* C18 witness: parse has returned with a calculated total of 4.20, the
\* sum of the last tokens 3,00 and 1,20 of the lines "2 KG 1,50 2,00 3,00"
\* and "7UP 1,20", whose items are stored at 2.00 and 1.20.
C18_Witness ==
    /\ pc = "done"
    /\ lines = << <<"2", " ", "K", "G", " ", "1", ",", "5", "0", " ", "2", ",", "0", "0", " ", "3", ",", "0", "0">>, <<"7", "U", "P", " ", "1", ",", "2", "0">> >>
    /\ Len(data.items) = 2
    /\ calculatedTotal = Num(420, 2)

\* The text of a line before its first price token, trimmed.
TextBeforeFirstPrice(line) ==
    trim(Sub(line, 1, allPriceMatches(line)[1].index - 1))

\* A text without its leading quantity token, digits followed by
\* whitespace, when it has one.
WithoutQuantityToken(s) ==
    IF \E j \in 1..(Len(s) - 1) :
          AllDigits(s, 1, j) /\ IsSpace(s[j + 1])
    THEN LET j == CHOOSE k \in 1..(Len(s) - 1) :
                     AllDigits(s, 1, k) /\ IsSpace(s[k + 1])
         IN  TrimStart(Sub(s, j + 1, Len(s)))
    ELSE s

\* C19: the description of every item added is the text of its line
\* before the first price token, trimmed, without its leading quantity
\* token (digits followed by whitespace) and otherwise unchanged, and it
\* has more than one character.
C19_Description ==
    [][AddsItem =>
         LET d == data'.items[Len(data'.items)].description
         IN  /\ d = WithoutQuantityToken(TextBeforeFirstPrice(lines[idx]))
             /\ Len(d) > 1]_vars

\* The keywords of totals, taxes, payments and terminals.
SummaryWords ==
    { <<"T", "O", "T", "A", "L">>, <<"S", "U", "B", "T", "O", "T", "A", "L">>, <<"I", "M", "P", "O", "R", "T", "E">>, <<"T", "A", "R", "J", "E", "T", "A">>, <<"E", "F", "E", "C", "T", "I", "V", "O">>, <<"P", "A", "G", "O">>, <<"P", "A", "G", "A", "R">>, <<"I", "V", "A">>,
      <<"I", ".", "V", ".", "A">>, <<"B", "A", "S", "E">>, <<"I", "M", "P", "O", "N", "I", "B", "L", "E">>, <<"C", "U", "O", "T", "A">>, <<"R", "E", "C", "A", "R", "G", "O">>, <<"D", "E", "S", "C", "U", "E", "N", "T", "O">>, <<"R", "E", "D", "O", "N", "D", "E", "O">>,
      <<"V", "A", "L", "O", "R">>, <<"O", "P", "E", "R", "A", "C", "I", "O", "N">>, <<"T", "E", "R", "M", "I", "N", "A", "L">>, <<"A", "U", "T", "O", "R", "I", "Z">>, <<"C", "O", "P", "I", "A">>, <<"C", "L", "I", "E", "N", "T", "E">> }

HasSummaryWord(line) ==
    \E w \in SummaryWords : includes(toUpperCase(line), w)

\* Digits, a separator, two digits, a separator, digits in the way of a
\* date, or nine digits or more in a row.
LooksLikeGarbage(line) ==
    \/ \E i \in 1..Len(line), a \in 2..4, c \in 2..4 :
          /\ AllDigits(line, i, i + a - 1)
          /\ i + a + 3 + c <= Len(line)
          /\ line[i + a] \in {"-", "/", "."}
          /\ AllDigits(line, i + a + 1, i + a + 2)
          /\ line[i + a + 3] \in {"-", "/", "."}
          /\ AllDigits(line, i + a + 4, i + a + 4 + c - 1)
    \/ \E i \in 1..Len(line) : AllDigits(line, i, i + 8)

\* Quantity, text, price: digits first, then anything, then a price with
\* two decimals.
HasItemShape(line) ==
    /\ line # <<>>
    /\ IsDigit(line[1])
    /\ \E c \in 3..Len(line) : PriceTailAt(line, c)

\* C20: the turn of the item loop on a line that holds a summary keyword,
\* in any case, or looks like garbage changes neither the items nor the
\* calculated total, whether or not the line has the shape of an item.
C20_SummaryAndGarbageRejected ==
    [][(pc = "items"
          /\ (HasSummaryWord(lines[idx]) \/ LooksLikeGarbage(lines[idx])))
       => (data'.items = data.items /\ calculatedTotal' = calculatedTotal)]_vars

\* C20 witness: parse has returned no item for two lines of the item
\* shape with prices in range, one with the keyword IVA and one with a
\* run of nine digits.
C20_Witness ==
    /\ pc = "done"
    /\ lines = << <<"1", " ", "I", "V", "A", " ", "0", ",", "5", "0", " ", "1", ",", "0", "0">>, <<"1", " ", "R", "E", "F", " ", "1", "2", "3", "4", "5", "6", "7", "8", "9", " ", "2", ",", "0", "0">> >>
    /\ \A k \in 1..2 : HasItemShape(lines[k]) /\ HasChosenPrice(lines[k])
    /\ data.items = <<>>
    /\ calculatedTotal = Zero

\* C21: the items stand in the order of their lines, one per line at most:
\* the item loop takes the lines one after the other, a turn adds nothing
\* or one item, at the end, made from the line of the turn, and no other
\* step touches the items; so lines that are all the same give as many
\* items, all the same, or none.
C21_ItemsInLineOrder ==
    /\ [][pc = "items" =>
            /\ idx' = idx + 1
            /\ \/ data'.items = data.items
               \/ /\ Len(data'.items) = Len(data.items) + 1
                  /\ SubSeq(data'.items, 1, Len(data.items)) = data.items
                  /\ HasChosenPrice(lines[idx])
                  /\ data'.items[Len(data'.items)].price =
                        ChosenPrice(lines[idx])]_vars
    /\ [][(pc \in {"merchant", "fallback", "date", "total", "reconcile",
                   "sanity"}) => data'.items = data.items]_vars
    /\ []((pc = "done" /\ \A k \in 1..Len(lines) : lines[k] = lines[1]) =>
            /\ Len(data.items) \in {0, Len(lines)}
            /\ \A k \in 1..Len(data.items) : data.items[k] = data.items[1])

\* C21 witness: parse has returned the item PAN twice for a text of two
\* lines "PAN 0,50".
C21_Witness ==
    /\ pc = "done"
    /\ lines = << <<"P", "A", "N", " ", "0", ",", "5", "0">>, <<"P", "A", "N", " ", "0", ",", "5", "0">> >>
    /\ Len(data.items) = 2
    /\ data.items[1] = data.items[2]

\* The total keywords.
TotalWords == { <<"T", "O", "T", "A", "L">>, <<"I", "M", "P", "O", "R", "T", "E">>, <<"P", "A", "G", "A", "R">>, <<"A", " ", "P", "A", "G", "A", "R">>, <<"L", "I", "Q", "U", "I", "D", "O">> }

\* The lines that hold a total keyword, in any case, and not SUBTOTAL.
TotalLines(ls) ==
    {k \in 1..Len(ls) :
        /\ \E w \in TotalWords : includes(toUpperCase(ls[k]), w)
        /\ ~includes(toUpperCase(ls[k]), <<"S", "U", "B", "T", "O", "T", "A", "L">>)}

\* The value of the first price of a line, 0 when it has none.
PriceValue(line) ==
    IF TotalMatch(line) = <<>> THEN Zero ELSE parsePrice(TotalMatch(line))

\* The last of a non-empty set of line numbers.
LastOf(ks) == CHOOSE k \in ks : \A j \in ks : j <= k

\* C22 as stated: the detected total is the price value of the last line
\* that holds a total keyword and not SUBTOTAL, whatever the earlier total
\* lines gave; 0 when there is no such line.
C22_LastTotalLine ==
    pc = "done" =>
        detectedTotal = IF TotalLines(lines) = {} THEN Zero
                        ELSE PriceValue(lines[LastOf(TotalLines(lines))])

\* The total lines that hold a price.
PricedTotalLines(ls) == {k \in TotalLines(ls) : TotalMatch(ls[k]) # <<>>}

\* C22 amended: the detected total is the value of the first price of the
\* last line that holds a total keyword, not SUBTOTAL, and a price; total
\* lines without a price are passed over, earlier priced total lines are
\* overridden, and it is 0 when there is no such line.
C22_LastPricedTotalLine ==
    pc = "done" =>
        detectedTotal = IF PricedTotalLines(lines) = {} THEN Zero
                        ELSE PriceValue(lines[LastOf(PricedTotalLines(lines))])

\* C22 witness: parse has returned with the detected total 12.00 of the
\* second of the two total lines "TOTAL 1,00" and "Total 12.00".
C22_Witness ==
    /\ pc = "done"
    /\ lines = << <<"T", "O", "T", "A", "L", " ", "1", ",", "0", "0">>, <<"T", "o", "t", "a", "l", " ", "1", "2", ".", "0", "0">> >>
    /\ detectedTotal = Num(12, 0)

\* The highest of the prices stored in a non-empty items.
HighestPrice(items) ==
    CHOOSE p \in {items[k].price : k \in 1..Len(items)} :
        \A k \in 1..Len(items) : ~NumGt(items[k].price, p)

\* C23: when the total is still 0 after the reconciliation and there is an
\* item, the total returned is the highest stored price, and otherwise the
\* reconciled total; so the total returned is above 0 whenever there is an
\* item, and it is 0 only when the detected total is 0 and there is no
\* item.
C23_FinalSanityCheck ==
    /\ [][pc = "sanity" =>
            data'.total = IF data.total = Zero /\ data.items # <<>>
                          THEN HighestPrice(data.items)
                          ELSE data.total]_vars
    /\ [](pc = "done" =>
            /\ data.items # <<>> => NumGt(data.total, Zero)
            /\ data.total = Zero =>
                  (detectedTotal = Zero /\ data.items = <<>>))

\* C23 witness: parse has returned the total 2.00, the higher of the
\* prices of two items whose line amounts are 0,00, with no total line.
C23_Witness ==
    /\ pc = "done"
    /\ lines = << <<"H", "U", "E", "V", "O", "S", " ", "0", ",", "5", "0", " ", "0", ",", "0", "0">>, <<"Q", "U", "E", "S", "O", " ", "2", ",", "0", "0", " ", "0", ",", "0", "0">> >>
    /\ Len(data.items) = 2
    /\ calculatedTotal = Zero
    /\ detectedTotal = Zero
    /\ data.total = Num(2, 0)

\* The places of a line where a match of the date pattern starts.
DateStarts(line) ==
    {i \in 1..Len(line) : \E g \in DateShapes :
                              DateMatchesAt(line, i, g[1], g[2], g[3])}

\* The year of a date as it is written out: a 2-digit year gets 20 in front.
FullYear(y) == IF Len(y) = 2 THEN <<"2", "0">> \o y ELSE y

\* C24: the date comes from the first line that holds a date pattern and
\* from the first match in that line, whatever later lines hold; a 2-digit
\* year is prefixed with 20, day and month are padded to 2 digits.
C24_FirstDateLineFirstMatch ==
    (pc = "done" /\ HasDateLine(lines)) =>
       LET line == FirstDateLine(lines)
           i == CHOOSE x \in DateStarts(line) :
                    \A y \in DateStarts(line) : x <= y
       IN  \E g \in DateShapes :
              /\ DateMatchesAt(line, i, g[1], g[2], g[3])
              /\ LET a == Sub(line, i, i + g[1] - 1)
                     b == Sub(line, i + g[1] + 1, i + g[1] + g[2])
                     y == Sub(line, i + g[1] + g[2] + 2,
                              i + g[1] + g[2] + g[3] + 1)
                 IN  data.date \in
                        { FullYear(y) \o <<"-">> \o padStart2(b)
                                      \o <<"-">> \o padStart2(a),
                          FullYear(y) \o <<"-">> \o padStart2(a)
                                      \o <<"-">> \o padStart2(b) }

C24_Witness ==
    /\ pc = "done"
    /\ lines = << <<"5", "-", "6", "-", "0", "7", " ", "y", " ", "1", ".", "2", ".", "2", "0", "0", "3">>, <<"1", "3", "/", "0", "5", "/", "2", "4">> >>
    /\ data.date = <<"2", "0", "0", "7", "-", "0", "6", "-", "0", "5">>

\* Whether a line is longer than 3 characters, holds no two digits in a row
\* and none of the exclusion words.
QualifiesAsMerchant(line) ==
    /\ Len(line) > 3
    /\ ~\E q \in 1..(Len(line) - 1) : IsDigit(line[q]) /\ IsDigit(line[q + 1])
    /\ \A w \in AddressWords : ~includes(toUpperCase(line), w)

FirstTwelveQualifying(ls) ==
    {j \in 1..Len(ls) : j <= 12 /\ QualifiesAsMerchant(ls[j])}

\* C25: the fallback is used only when no alias matches the text; it then
\* gives, in upper case and trimmed, the first of the first 12 lines that is
\* longer than 3 characters, without a run of 2 digits and without an
\* exclusion word; a line from the 13th on is never used, and the sentinel
\* is returned when no line qualifies.
C25_PositionalFallback ==
    pc = "done" =>
       IF MatchingNames(lines) # {} THEN data.merchant \in CanonicalNames
       ELSE LET ok == FirstTwelveQualifying(lines)
            IN  IF ok = {} THEN data.merchant = Sentinel
                ELSE data.merchant =
                        trim(toUpperCase(lines[CHOOSE j \in ok :
                                                  \A k \in ok : j <= k]))

\* The keywords of all categories, and whether one of them occurs in the
\* lowercased description (a missing description holds none).
AllKeywords ==
    UNION { {categories[i].keywords[j] : j \in 1..Len(categories[i].keywords)} :
              i \in 1..Len(categories) }

HoldsKeyword(description) ==
    /\ description.k = "string"
    /\ \E w \in AllKeywords : includes(toLowerCase(description.s), w)

\* C26: for every description, the empty and the missing one included,
\* categorize returns one label, which is among those that getCategories
\* returns, and it is the default label when no keyword of any category
\* occurs in the lowercased description.
C26_OneLabelOfTheClosedSet ==
    labelOut # <<>> =>
       /\ Len(labelOut) = 1
       /\ categoriesOut # <<>> =>
             \E i \in 1..Len(categoriesOut[1]) :
                 categoriesOut[1][i] = labelOut[1]
       /\ ~HoldsKeyword(descArg) => labelOut[1] = DefaultCategory

C26_Witness ==
    /\ descArg = [k |-> "string", s |-> <<"X", "Y", "Z", " ", "7">>]
    /\ labelOut = << <<"O", "t", "r", "o", "s">> >>
    /\ categoriesOut # <<>>
    /\ Len(categoriesOut[1]) = 13

\* C27: no line both supplies the detected total and yields an item: a line
\* that holds a total keyword (TOTAL, IMPORTE, PAGAR, A PAGAR, LIQUIDO) and
\* not SUBTOTAL never adds an item.
C27_TotalLineYieldsNoItem ==
    [][AddsItem => idx \notin TotalLines(lines)]_vars

\* C28: no line in which the date pattern (1-2 digits, separator, 1-2
\* digits, separator, 2-4 digits) has a match ever adds an item.
C28_DateLineYieldsNoItem ==
    [][AddsItem => ~HasDateMatch(lines[idx])]_vars

\* C29: the total that parse returns is never below the detected total,
\* also when the detected total is more than 30 above the calculated one.
C29_TotalNotBelowDetected ==
    pc \in {"sanity", "done"} =>
        data.total.k # "nan" /\ ~NumLt(data.total, detectedTotal)

C29_Witness ==
    /\ pc = "done"
    /\ detectedTotal = Num(45, 0)
    /\ calculatedTotal = Num(50, 2)
    /\ data.total = Num(45, 0)

\* What a turn of the item loop makes of the items and of the calculated
\* total when it looks for prices on the line whatever isNoise says.
ItemsWithoutNoiseFilter(items, line) ==
    LET matches == allPriceMatches(line)
    IN  IF matches = <<>> THEN items
        ELSE LET price == parsePrice(matches[PriceIdx(matches)].text)
                 text == Description(line, matches)
             IN  IF AcceptsItem(line, text, price)
                 THEN Append(items, NewItem(text, price))
                 ELSE items

SumWithoutNoiseFilter(sum, line) ==
    LET matches == allPriceMatches(line)
    IN  IF matches = <<>> THEN sum
        ELSE LET price == parsePrice(matches[PriceIdx(matches)].text)
                 text == Description(line, matches)
             IN  IF AcceptsItem(line, text, price)
                 THEN NumAdd(sum, parsePrice(matches[Len(matches)].text))
                 ELSE sum

\* C30: a line that isNoise calls noise holds no price token, so skipping
\* noise lines changes nothing: every turn of the item loop leaves the
\* items and the calculated total as it would without the noise filter,
\* whether isLikelyItem is asked first or not.
C30_NoiseFilterChangesNothing ==
    /\ [](pc = "done" =>
            \A k \in 1..Len(lines) :
                isNoise(lines[k]) => allPriceMatches(lines[k]) = <<>>)
    /\ [][(pc = "items") =>
            /\ data'.items = ItemsWithoutNoiseFilter(data.items, lines[idx])
            /\ calculatedTotal' =
                  SumWithoutNoiseFilter(calculatedTotal, lines[idx])]_vars

C30_Witness ==
    /\ pc = "done"
    /\ Len(lines) = 4
    /\ isNoise(lines[1]) /\ isNoise(lines[2]) /\ isNoise(lines[4])
    /\ Len(data.items) = 1
    /\ data.total = Num(50, 2)

-----------------------------------------------------------------------------
(* Properties of several calls of parse, checked under SessionSpec. *)

\* The calls noted in returned that had the text and the day of the call
\* under way.
SameInputCalls ==
    {e \in returned : e.text = rawText /\ e.date = today}

C16_NoStateOutlivesCall ==
    /\ [][fields' = fields]_vars
    /\ [][pc = "start" =>
             data' = [merchant |-> Sentinel, date |-> today, total |-> Zero,
                      items |-> <<>>]]_vars
    /\ [](pc = "done" =>
             \A e \in SameInputCalls : e.parser = parser => e.data = data)

\* C16 witness: a call has returned one item on an instance that had
\* returned items for another text before.
C16_Witness ==
    /\ pc = "done"
    /\ Len(data.items) = 1
    /\ \E e \in returned :
          e.parser = parser /\ e.text # rawText /\ Len(e.data.items) > 0
=============================================================================
